---- MODULE Spec2Model ----
(***************************************************************************)
(* Tag protocol engine of nfc-tool_ESP32: the Mifare Classic engine        *)
(* (modules/rfid/mifare_tool.cpp), and the coordinator that drives it      *)
(* (modules/rfid/nfc_manager.cpp).  One engine operation is in progress at *)
(* a time; every step of an operation issues the transport calls of one    *)
(* loop iteration of the source.                                           *)
(***************************************************************************)
EXTENDS Integers, Sequences, FiniteSets, TLC

----------------------------------------------------------------------------
(* Bounds of the model *)

\* coordinator calls and card changes in one behaviour
MaxOps == 2
\* spurious authentication failures (weak field) in one behaviour
MaxGlitches == 1

----------------------------------------------------------------------------
(* Program constants: mifare_tool.h, nfc_manager.h *)

SUCCESS == 0
ERROR_NO_TAG == -1
ERROR_AUTH_FAILED == -2
ERROR_READ_FAILED == -3
ERROR_WRITE_FAILED == -4
ERROR_FILE_ERROR == -5
ERROR_INVALID_DATA == -6

MIFARE_1K_SECTORS == 16
MIFARE_4K_SECTORS == 40
MIFARE_1K_BLOCKS == 64
MIFARE_4K_BLOCKS == 256
MIFARE_BLOCK_SIZE == 16
MIFARE_UID_MAX_SIZE == 10
BLOCKS_PER_SMALL_SECTOR == 4
BLOCKS_PER_LARGE_SECTOR == 16
SMALL_SECTOR_COUNT == 32
LARGE_SECTOR_BOUNDARY == 128
UID_BLOCK == 0
TYPE_PROBE_BLOCK == 64
TAGINFO_MIFARE_BLOCKS == 64


----------------------------------------------------------------------------
(* Keys.  A key is a 12-character upper-case hex string, equivalently its  *)
(* 6 bytes; the model numbers the keys in the order of their strings,      *)
(* which is the iteration order of the std::set<String> key store.         *)
(*   0 "000000000000"  1 "A0A1A2A3A4A5"  2 "B0B1B2B3B4B5"                   *)
(*   3 "D3F7D3F7D3F7"  4 "FFFFFFFFFFFF"  5 a key that is in no database     *)

NoKey == -1
DEFAULT_KEY == 4
UNKNOWN_KEY == 5

\* createDefaultFile(): the five keys of a fresh install
DefaultKeys == {0, 1, 2, 3, 4}

\* the contents of the key file at start-up: the fresh install, or a file
\* the user reduced to the transport key
KeyStores == {DefaultKeys, {DEFAULT_KEY}}

\* the least element of a non-empty set
MinOf(S) == CHOOSE x \in S : \A y \in S : x <= y

RECURSIVE SortedSeq(_)
SortedSeq(S) ==
    IF S = {} THEN << >>
    ELSE LET m == CHOOSE x \in S : \A y \in S : x <= y
         IN  <<m>> \o SortedSeq(S \ {m})

\* the order in which "for (const String& key_str : keys)" visits the store
KeySeq(K) == SortedSeq(K)

----------------------------------------------------------------------------
(* Addressing *)

getSectorCount(type) ==
    IF type = "CARD_MIFARE_1K" THEN MIFARE_1K_SECTORS ELSE MIFARE_4K_SECTORS

\* faulty variant: every sector taken for a small one
getFirstBlockOfSector_AllSmall(s) == s * BLOCKS_PER_SMALL_SECTOR

getFirstBlockOfSector(s) ==
    IF s < SMALL_SECTOR_COUNT
    THEN s * BLOCKS_PER_SMALL_SECTOR
    ELSE LARGE_SECTOR_BOUNDARY + (s - SMALL_SECTOR_COUNT) * BLOCKS_PER_LARGE_SECTOR

getBlockCountInSector(s) ==
    IF s < SMALL_SECTOR_COUNT THEN BLOCKS_PER_SMALL_SECTOR ELSE BLOCKS_PER_LARGE_SECTOR

\* the sector expression of write_single_block_headless and writeSingleBlock
SectorOfBlock(b) ==
    IF b < LARGE_SECTOR_BOUNDARY
    THEN b \div BLOCKS_PER_SMALL_SECTOR
    ELSE SMALL_SECTOR_COUNT + (b - LARGE_SECTOR_BOUNDARY) \div BLOCKS_PER_LARGE_SECTOR

TrailerOfSector(s) == getFirstBlockOfSector(s) + (getBlockCountInSector(s) - 1)

TotalBlocksOf(type) ==
    IF type = "CARD_MIFARE_1K" THEN MIFARE_1K_BLOCKS ELSE MIFARE_4K_BLOCKS

AllBlocks == 0 .. (MIFARE_4K_BLOCKS - 1)
AllSectors == 0 .. (MIFARE_4K_SECTORS - 1)

----------------------------------------------------------------------------
(* Bytes *)

RECURSIVE XorByte(_, _)
XorByte(a, b) ==
    IF a = 0 THEN b
    ELSE IF b = 0 THEN a
    ELSE (((a % 2) + (b % 2)) % 2) + (2 * XorByte(a \div 2, b \div 2))

RECURSIVE XorOfBytes(_, _)
\* bcc ^= _uid[i] for i < n
XorOfBytes(bytes, n) ==
    IF n = 0 THEN 0 ELSE XorByte(XorOfBytes(bytes, n - 1), bytes[n])

ZeroBytes(n) == [i \in 1 .. n |-> 0]

\* memcpy(dst, src, n) on byte arrays indexed from 1
MemCpy(dst, src, n) ==
    [i \in DOMAIN dst |-> IF i <= n /\ i \in DOMAIN src THEN src[i] ELSE dst[i]]

\* A 16-byte block is kept as its three fields: bytes 0-5, 6-9, 10-15.
\* In a sector trailer these are Key A, the access bytes and Key B.
ZeroBlock == <<0, 0, 0>>
DataBlock(d) == <<d, d, d>>

----------------------------------------------------------------------------
(* The card in the field (the transport's other end) *)

NoCard == [present |-> FALSE]

IsTrailerOn(b) == b = TrailerOfSector(SectorOfBlock(b))

MkCard(type, cuid, magic, ka, kb, acc, d, bad) ==
    [present |-> TRUE, type |-> type, uid |-> cuid, magic |-> magic, bad |-> bad,
     mem |-> [b \in 0 .. (TotalBlocksOf(type) - 1) |->
                IF IsTrailerOn(b)
                THEN <<ka[SectorOfBlock(b)], acc, kb[SectorOfBlock(b)]>>
                ELSE DataBlock(d)]]

\* factory-fresh 1K card: every key is FFFFFFFFFFFF
Card1KDefault ==
    MkCard("CARD_MIFARE_1K", <<1, 2, 3, 4>>, FALSE,
           [s \in AllSectors |-> DEFAULT_KEY], [s \in AllSectors |-> DEFAULT_KEY],
           1, 7, {})

\* 1K magic card in use: keys differ from sector to sector, sectors 3, 7, ..
\* carry keys of no database, block 9 is worn out
Card1KMixed ==
    MkCard("CARD_MIFARE_1K", <<5, 6, 7, 8>>, TRUE,
           [s \in AllSectors |-> CASE s % 4 = 0 -> 1
                                   [] s % 4 = 1 -> 3
                                   [] OTHER -> UNKNOWN_KEY],
           [s \in AllSectors |-> CASE s % 4 = 2 -> 2
                                   [] s % 4 = 3 -> UNKNOWN_KEY
                                   [] OTHER -> DEFAULT_KEY],
           2, 8, {9})

\* factory-fresh 4K card with a 7-byte UID
Card4KDefault ==
    MkCard("CARD_MIFARE_4K", <<1, 1, 2, 3, 5, 8, 13>>, FALSE,
           [s \in AllSectors |-> DEFAULT_KEY], [s \in AllSectors |-> DEFAULT_KEY],
           1, 9, {})

\* 1K card whose sectors all carry keys of no database
Card1KLocked ==
    MkCard("CARD_MIFARE_1K", <<13, 14, 15, 16>>, FALSE,
           [s \in AllSectors |-> UNKNOWN_KEY], [s \in AllSectors |-> UNKNOWN_KEY],
           2, 10, {})

Cards == {Card1KDefault, Card1KMixed, Card4KDefault, Card1KLocked}

CardKey(c, s, kt) ==
    IF kt = "A" THEN c.mem[TrailerOfSector(s)][1] ELSE c.mem[TrailerOfSector(s)][3]

\* what mifareclassic_ReadDataBlock returns: Key A of a trailer always reads
\* as zeros, Key B reads as zeros unless the access bytes make it readable
Readback(c, b) ==
    IF IsTrailerOn(b)
    THEN <<0, c.mem[b][2], IF c.mem[b][2] = 1 THEN c.mem[b][3] ELSE 0>>
    ELSE c.mem[b]

----------------------------------------------------------------------------
(* Dump files, as parseFileFormat sees them: the header fields and the     *)
(* "Page n:" lines in file order                                           *)

MkFile(type, fuid, fsak, fatqa, n, ka, kb, acc, d) ==
    [type |-> type, uid |-> fuid, sak |-> fsak, atqa |-> fatqa,
     pages |-> [i \in 1 .. n |->
                  IF IsTrailerOn(i - 1) THEN <<ka, acc, kb>> ELSE DataBlock(d)]]

File1K == MkFile("CARD_MIFARE_1K", <<9, 10, 11, 12>>, 8, <<4, 0>>, 64, 3, 2, 1, 5)
File1KPartial == MkFile("CARD_MIFARE_1K", <<9, 10, 11, 12>>, 8, <<4, 0>>, 8, 4, 4, 1, 6)
File4K == MkFile("CARD_MIFARE_4K", <<9, 9, 9, 9, 9, 9, 9>>, 24, <<2, 0>>, 256, 4, 4, 1, 5)
\* a file whose UID line holds 12 bytes
File1KLongUid ==
    MkFile("CARD_MIFARE_1K", <<1, 2, 3, 4, 5, 6, 7, 8, 9, 10, 11, 12>>, 8, <<4, 0>>,
           8, 4, 4, 1, 6)

Files == {File1K, File1KPartial, File4K, File1KLongUid}

\* block lists of the selective-write requests
BlockLists == {<<0, 5, 7>>, <<5, 6>>, <<5, 7, 6>>, <<70, 9, 10>>}

----------------------------------------------------------------------------
(* SRIX4K: srix_tool.h.  A block is its 4 bytes.                           *)

SRIX_BLOCK_COUNT == 128
SRIX_BLOCK_SIZE == 4
SRIX_UID_SIZE == 8
SRIX_MAX_BLOCK_NUM == 127
HEX_PADDING_THRESHOLD == 16
HEX_CHARS_PER_BYTE == 2

SRIX_ERROR_TIMEOUT == -1
SRIX_ERROR_NO_DUMP == -2
SRIX_ERROR_INVALID_BLOCK == -4
SRIX_ERROR_WRITE_FAILED == -5
SRIX_ERROR_FILE_NOT_FOUND == -2
SRIX_ERROR_INCOMPLETE_DUMP == -3
SUCCESS_VERIFY_FAIL == 1
SUCCESS_VERIFY_SKIP == 2

SrixBlocks == 0 .. (SRIX_BLOCK_COUNT - 1)
SrixZeroBlock == <<0, 0, 0, 0>>
SrixZeroDump == [b \in SrixBlocks |-> SrixZeroBlock]

----------------------------------------------------------------------------
(* Hex text.  A hex string is the sequence of its digits' values, which    *)
(* leaves the letter case out: strtoul reads both cases alike.             *)

\* String(b, HEX) of a byte: no leading zero
StringHex(b) == IF b < 16 THEN <<b>> ELSE <<b \div 16, b % 16>>

\* "if (b < HEX_PADDING_THRESHOLD) s += "0"; s += String(b, HEX);"
HexOfByte(b) == (IF b < HEX_PADDING_THRESHOLD THEN <<0>> ELSE << >>) \o StringHex(b)

RECURSIVE HexOfBytes(_, _)
\* the bytes 1 .. n of a buffer printed one after the other
HexOfBytes(bytes, n) ==
    IF n = 0 THEN << >> ELSE HexOfBytes(bytes, n - 1) \o HexOfByte(bytes[n])

RECURSIVE strtoul(_)
\* strtoul(str, NULL, 16) of a string of hex digits
strtoul(str) ==
    IF str = << >> THEN 0
    ELSE (strtoul(SubSeq(str, 1, Len(str) - 1)) * 16) + str[Len(str)]

\* String::substring(from, to): to is cut to the length
Substring(str, from, to) ==
    SubSeq(str, from + 1, IF to > Len(str) THEN Len(str) ELSE to)

\* the byte whose two digits stand at index i of the string, counted from 0
ByteOfHex(str, i) ==
    strtoul(Substring(str, i * HEX_CHARS_PER_BYTE,
                      (i * HEX_CHARS_PER_BYTE) + HEX_CHARS_PER_BYTE)) % 256

----------------------------------------------------------------------------
(* The SRIX tag in the field.  A block in worn acknowledges a write and    *)
(* keeps its content.                                                      *)

NoTag ==
    [present |-> FALSE, uid |-> ZeroBytes(SRIX_UID_SIZE), worn |-> {},
     mem |-> SrixZeroDump]

SrixTagA ==
    [present |-> TRUE, uid |-> <<208, 2, 25, 1, 2, 3, 4, 5>>, worn |-> {},
     mem |-> [b \in SrixBlocks |-> <<b, 255 - b, 17, 0>>]]

SrixTagWorn ==
    [present |-> TRUE, uid |-> <<208, 2, 25, 9, 9, 9, 9, 9>>, worn |-> {5},
     mem |-> [b \in SrixBlocks |-> <<0, 0, 171, b>>]]

SrixTags == {SrixTagA, SrixTagWorn}

----------------------------------------------------------------------------
(* .srix files: the "UID:" line and the "[XX] YYYYYYYY" lines after the    *)
(* "# Data:" marker, in file order                                         *)

MkSrixFile(u, idxs, d) ==
    [uid |-> HexOfBytes(u, SRIX_UID_SIZE),
     lines |-> [i \in 1 .. Len(idxs) |->
                  [idx |-> HexOfByte(idxs[i]),
                   data |-> HexOfBytes(<<d, idxs[i], 170, 15>>, SRIX_BLOCK_SIZE)]]]

\* a complete dump, as save_file_headless writes it
SrixFileGood ==
    MkSrixFile(<<208, 2, 25, 17, 34, 51, 68, 85>>, [i \in 1 .. 128 |-> i - 1], 1)

\* the last line is missing
SrixFileShort ==
    MkSrixFile(<<208, 2, 25, 17, 34, 51, 68, 86>>, [i \in 1 .. 127 |-> i - 1], 2)

\* 128 lines: block 00 stands twice, block 7F is missing
SrixFileRepeat ==
    MkSrixFile(<<208, 2, 25, 17, 34, 51, 68, 87>>,
               [i \in 1 .. 128 |-> IF i = 128 THEN 0 ELSE i - 1], 3)

\* the dump folder at start-up
SrixFolder == <<SrixFileGood, SrixFileShort, SrixFileRepeat>>

\* block lists and blocks of the SRIX write requests
SrixBlockLists == {<< >>, <<5, 6>>, <<200, 6>>, <<127>>}
SrixBlockArgs == {6, 5, 200}
SrixDataArgs == {<<222, 173, 190, 239>>}

\* the blocks at which the field may fail during one operation
GlitchBlocks == {0, 49, 127}

----------------------------------------------------------------------------
VARIABLES
    \* the environment: card in the field, its crypto state, the PN532
    card, halted, authSector, pn532ok, rf_weak, glitches,
    \* MifareKeysManager::_keys
    keys,
    \* MifareTool members
    uid, uid_length, sak, atqa, card_type, total_blocks, blocks_read,
    dump_valid, dump, sector_auth_success, sector_keys,
    \* NFCManager members
    initialized, mifare_handler, current_tag, current_protocol,
    \* the operation in progress: position and locals
    pc, op, sector, stage, ki, cached_key_a, cached_key_b,
    secres, req, reqi, blocks_written, result, nops,
    \* observation of the transport calls
    hw, pendingFail, attempts, cascStart, cascRes, wlog, block0,
    visited, rlog, authlog, scanFound,
    \* the Mifare dump folder: the file saveMifare wrote; the blocks the
    \* engine's dump holds from its last read or load
    mfc_file, held,
    \* the SRIX tag in the field and the SRIX dump folder
    tag, srix_files,
    \* SRIXTool members and NFCManager::_srix_handler
    srix_uid, srix_dump, dump_valid_from_read, dump_valid_from_load, srix_handler,
    \* the SRIX operation in progress: the file named, the transport calls
    \* made so far, the image the dump was last made of
    file_arg, slog, srix_image,
    \* Result::message of the last SRIX operation
    message,
    \* the web API and the serial console: the tag at the antenna, the task
    \* data records, the worker tasks, the request handler of the web server
    \* task, the serial task, the JSON document last sent
    antenna, taskData, task, handler, serial, responseDoc,
    \* observation: the coordinator's tag before a compare, the two buffers
    \* compareTagData was given, the stores made through a freed record
    before_compare, compared, wild_writes,
    \* observation: the file name and protocol of the last load() and the
    \* number of the operation that was
    load_arg,
    \* the key store: MifareKeysManager::_keys with the text of the keys,
    \* MifareKeysManager::_loaded, the file /mifare_keys.txt
    _keys, _loaded, keys_file,
    \* observation: the last call of the key store
    key_call,
    \* block addressing: a card type and a block with the sector computed
    \* for it, the first block and the block count of that sector
    addr,
    \* one /api/nfc/srix/read request: the timeout of the request and what
    \* the handler, readSRIX and read_tag_headless make of it, in ms
    read_call,
    \* the files of LittleFS written by the Mifare engine's
    \* save_file_headless, path to text, and observation: its last call
    \* with the files before it
    mfc_folder, save_call,
    \* one full-write or clone request: the handler, the worker that frees
    \* the task data itself, the task data, the time each still sleeps and
    \* observation: the fields the handler read from the freed record
    write_req

envVars == <<card, halted, authSector, pn532ok, rf_weak, glitches>>
engVars == <<uid, uid_length, sak, atqa, card_type, total_blocks, blocks_read,
             dump_valid, dump, sector_auth_success, sector_keys>>
mgrVars == <<initialized, mifare_handler, current_tag, current_protocol>>
ctlVars == <<pc, op, sector, stage, ki, cached_key_a, cached_key_b,
             secres, req, reqi, blocks_written, result, nops>>
obsVars == <<hw, pendingFail, attempts, cascStart, cascRes, wlog, block0,
             visited, rlog, authlog, scanFound>>

fileVars == <<mfc_file, held>>
srixVars == <<tag, srix_files, srix_uid, srix_dump, dump_valid_from_read,
              dump_valid_from_load, srix_handler, file_arg, slog, srix_image,
              message>>

webVars == <<antenna, taskData, task, handler, serial, responseDoc,
             before_compare, compared, wild_writes>>

keyVars == <<_keys, _loaded, keys_file, key_call>>

\* what only the specifications of single parts of the program touch
partVars == <<addr, read_call, mfc_folder, save_call, write_req>>

\* what the coordinator's own operations never touch
sideVars == <<webVars, load_arg, keyVars, partVars>>

vars == <<envVars, keys, engVars, mgrVars, ctlVars, obsVars, fileVars, srixVars,
          sideVars>>

\* groups left alone together
detectVars == <<uid, uid_length, sak, atqa, card_type, total_blocks>>
cascLocals == <<sector, stage, ki>>
hintVars == <<cached_key_a, cached_key_b>>
reqVars == <<req, reqi, blocks_written>>
readObs == <<visited, rlog, authlog, scanFound>>
cascObs == <<attempts, cascStart, cascRes>>

----------------------------------------------------------------------------
(* Transport calls and their effect on the card's state *)

Sel(ok) == [c |-> "select", b |-> -1, kt |-> "-", k |-> NoKey, ok |-> ok]
Auth(b, kt, k, ok) == [c |-> "auth", b |-> b, kt |-> kt, k |-> k, ok |-> ok]
Rd(b, ok) == [c |-> "read", b |-> b, kt |-> "-", k |-> NoKey, ok |-> ok]
Wr(b, ok) == [c |-> "write", b |-> b, kt |-> "-", k |-> NoKey, ok |-> ok]
Begin(ok) == [c |-> "begin", b |-> -1, kt |-> "-", k |-> NoKey, ok |-> ok]

\* readPassiveTargetID: a card answers the select
SelectOk(c) == pn532ok /\ c.present

\* mifareclassic_AuthenticateBlock: the outcomes the card can give.  A card
\* that failed an authentication is halted until it is selected again and
\* then usually refuses; in a weak field the attempt fails.
AuthOutcomes(c, h, weak, b, kt, k) ==
    LET match == /\ pn532ok
                 /\ c.present
                 /\ b < TotalBlocksOf(c.type)
                 /\ CardKey(c, SectorOfBlock(b), kt) = k
    IN  IF weak THEN {FALSE}
        ELSE IF h /\ match THEN {FALSE, TRUE}
        ELSE {match}

\* mifareclassic_ReadDataBlock / mifareclassic_WriteDataBlock need the
\* block's sector authenticated; block 0 is writable on magic cards only
ReadOk(c, as, b) ==
    pn532ok /\ c.present /\ as = SectorOfBlock(b) /\ b \notin c.bad

WriteOk(c, as, b) ==
    /\ pn532ok /\ c.present /\ as = SectorOfBlock(b) /\ b \notin c.bad
    /\ (b = UID_BLOCK => c.magic)

RECURSIVE PendingAfter(_, _)
\* a failed authentication not yet followed by a select call
PendingAfter(p, calls) ==
    IF calls = << >> THEN p
    ELSE LET x == Head(calls)
         IN  PendingAfter(IF x.c = "select" THEN FALSE
                          ELSE IF x.c = "auth" /\ ~x.ok THEN TRUE
                          ELSE IF x.c = "auth" THEN FALSE
                          ELSE p, Tail(calls))

RECURSIVE HaltedAfter(_, _)
HaltedAfter(h, calls) ==
    IF calls = << >> THEN h
    ELSE LET x == Head(calls)
         IN  HaltedAfter(IF x.c = "select" /\ x.ok THEN FALSE
                         ELSE IF x.c = "auth" /\ ~x.ok THEN TRUE
                         ELSE IF x.c = "auth" THEN FALSE
                         ELSE h, Tail(calls))

RECURSIVE AuthSectorAfter(_, _)
AuthSectorAfter(as, calls) ==
    IF calls = << >> THEN as
    ELSE LET x == Head(calls)
         IN  AuthSectorAfter(IF x.c = "select" /\ x.ok THEN -1
                             ELSE IF x.c = "auth" /\ x.ok THEN SectorOfBlock(x.b)
                             ELSE IF x.c = "auth" THEN -1
                             ELSE as, Tail(calls))

\* the step issued these calls, in this order
Transport(calls, weak) ==
    /\ hw' = calls
    /\ pendingFail' = PendingAfter(pendingFail, calls)
    /\ halted' = HaltedAfter(halted, calls)
    /\ authSector' = AuthSectorAfter(authSector, calls)
    /\ rf_weak' = weak
    /\ UNCHANGED pn532ok

----------------------------------------------------------------------------
(* Records *)

Result(s, c) == [success |-> s, code |-> c]

cardTypeToString(t) ==
    CASE t = "CARD_MIFARE_1K" -> "Mifare Classic 1K"
      [] t = "CARD_MIFARE_4K" -> "Mifare Classic 4K"
      [] OTHER -> "Unknown"

TagInfo(v, proto, name, u, ulen, d, sec) ==
    [valid |-> v, protocol |-> proto, protocol_name |-> name, uid |-> u,
     uid_length |-> ulen, dump |-> d, sectors |-> sec]

ZeroTagDump == [b \in 0 .. (TAGINFO_MIFARE_BLOCKS - 1) |-> ZeroBlock]

\* memset(&_current_tag, 0, sizeof(TagInfo))
ZeroTag ==
    TagInfo(FALSE, "PROTOCOL_UNKNOWN", "", ZeroBytes(MIFARE_UID_MAX_SIZE), 0, ZeroTagDump, 0)

NoSectorKeys == [key_a |-> 0, key_a_valid |-> FALSE, key_b |-> 0, key_b_valid |-> FALSE]

----------------------------------------------------------------------------
(* The authentication cascade: which attempt comes first, which follows a  *)
(* failed one.  haveA/haveB: a cached key of that type is present; n: the  *)
(* number of keys in the database.                                         *)

StageKt(st) == IF st \in {"cachedA", "dbA"} THEN "A" ELSE "B"
StageSrc(st) == IF st \in {"cachedA", "cachedB"} THEN "cached" ELSE "db"

\* faulty variant: the hints are passed over, every sector starts with the scan
FirstStage_IgnoresHints(haveA, haveB, n) ==
    IF n > 0 THEN [stage |-> "dbA", ki |-> 1]
    ELSE [stage |-> "none", ki |-> 0]

FirstStage(haveA, haveB, n) ==
    IF haveA THEN [stage |-> "cachedA", ki |-> 0]
    ELSE IF haveB THEN [stage |-> "cachedB", ki |-> 0]
    ELSE IF n > 0 THEN [stage |-> "dbA", ki |-> 1]
    ELSE [stage |-> "none", ki |-> 0]

\* faulty variant: the Key B scan of the database is left out
NextStage_NoKeyBScan(st, i, haveB, n) ==
    CASE st = "cachedA" -> FirstStage(FALSE, haveB, n)
      [] st = "cachedB" -> FirstStage(FALSE, FALSE, n)
      [] st = "dbA" -> IF i < n THEN [stage |-> "dbA", ki |-> i + 1]
                       ELSE [stage |-> "none", ki |-> 0]
      [] OTHER -> [stage |-> "none", ki |-> 0]

NextStage(st, i, haveB, n) ==
    CASE st = "cachedA" -> FirstStage(FALSE, haveB, n)
      [] st = "cachedB" -> FirstStage(FALSE, FALSE, n)
      [] st = "dbA" -> IF i < n THEN [stage |-> "dbA", ki |-> i + 1]
                       ELSE [stage |-> "dbB", ki |-> 1]
      [] st = "dbB" -> IF i < n THEN [stage |-> "dbB", ki |-> i + 1]
                       ELSE [stage |-> "none", ki |-> 0]
      [] OTHER -> [stage |-> "none", ki |-> 0]

\* writeBlock0 scans the database only
FirstDbStage(n) == FirstStage(FALSE, FALSE, n)

Attempt(st, k, ok) == [kt |-> StageKt(st), k |-> k, src |-> StageSrc(st), ok |-> ok]

----------------------------------------------------------------------------
(* The web API (modules/webserver/webserver_handler_nfc.cpp) and the       *)
(* serial console (modules/serial_commands/serial_commander.cpp): three    *)
(* tasks share the coordinator.  The web server task runs one request      *)
(* handler at a time; every hardware request of it creates a worker task   *)
(* and a task data record; the serial task calls the coordinator itself.   *)
(* Here a dump is the byte array of the TagInfo union, indexed from 1.     *)

\* the task data records one run may allocate; the requests, loads and serial
\* commands of one run together are MaxOps
MaxRequests == 2

Requests == 1 .. MaxRequests

SRIX_DUMP_SIZE == 512
MIFARE_1K_DUMP_SIZE == 1024

\* n bytes, zero but for the offsets (from 0) named with their values
Buffer(n, set) ==
    [i \in 1 .. n |-> IF \E p \in set : p[1] = i - 1
                      THEN (CHOOSE p \in set : p[1] = i - 1)[2]
                      ELSE 0]

WebUidSrix == <<208, 2, 51, 17, 34, 51, 68, 85, 0, 0>>
WebUidMifare == <<222, 173, 190, 239, 0, 0, 0, 0, 0, 0>>

MifareTagInfo(name, u, ulen, d, sec) ==
    TagInfo(TRUE, "PROTOCOL_MIFARE_CLASSIC", name, u, ulen, d, sec)

\* what a load leaves as the current tag
LoadedSrix ==
    TagInfo(TRUE, "PROTOCOL_SRIX", "SRIX4K", WebUidSrix, SRIX_UID_SIZE,
            Buffer(SRIX_DUMP_SIZE, {<<20, 17>>}), 0)
LoadedMifare1K ==
    MifareTagInfo("Mifare Classic 1K", WebUidMifare, 4,
                  Buffer(MIFARE_1K_DUMP_SIZE, {<<16, 170>>}), 16)
LoadedDumps == {LoadedSrix, LoadedMifare1K}

\* what a read of the tag at the antenna fills in: the SRIX tag the dump was
\* taken from; one with other bytes in blocks 5 (bytes 2 and 3) and 127
PhysSrixSame == LoadedSrix
PhysSrixOther ==
    [LoadedSrix EXCEPT !.dump = Buffer(SRIX_DUMP_SIZE,
                                       {<<20, 17>>, <<22, 7>>, <<23, 9>>, <<508, 1>>})]
\* the Mifare 1K card the dump was taken from; one with other bytes in block
\* 0, in the trailers 3 and 63 and in block 5; a 4K card that differs in block 4
PhysMifareSame == LoadedMifare1K
PhysMifareOther ==
    [LoadedMifare1K EXCEPT !.dump = Buffer(MIFARE_1K_DUMP_SIZE,
                                           {<<16, 170>>, <<3, 4>>, <<63, 255>>,
                                            <<89, 1>>, <<90, 2>>, <<1023, 8>>})]
PhysMifare4K ==
    MifareTagInfo("Mifare Classic 4K", WebUidMifare, 4,
                  Buffer(MIFARE_1K_DUMP_SIZE, {<<16, 170>>, <<65, 3>>}), 16)
NothingPresented == [valid |-> FALSE, protocol |-> "PROTOCOL_UNKNOWN"]
PhysicalTags == {PhysSrixSame, PhysSrixOther, PhysMifareSame, PhysMifareOther,
                 PhysMifare4K}

\* struct Result
WebResult(s, m, c) == [success |-> s, message |-> m, code |-> c]

\* new nfcReadTaskSRIXData() and the like; heap: none, live, freed
NoRecord ==
    [heap |-> "none", running |-> FALSE, completed |-> FALSE,
     result |-> WebResult(FALSE, "", 0), tagInfo |-> ZeroTag]
NewRecord == [NoRecord EXCEPT !.heap = "live"]

NoTask == [pc |-> "none", fn |-> "none"]
HandlerIdle == [pc |-> "idle", id |-> 0, kind |-> "none", loadedTag |-> ZeroTag]
SerialIdle == [pc |-> "idle", cmd |-> "none"]
EmptyDoc == [status |-> 0]

\* the requests that start a worker, the task function and the engine of each
RequestKinds == {"srix_read", "srix_compare", "mifare_read", "mifare_compare",
                 "mifare_write_selective"}
CompareKinds == {"srix_compare", "mifare_compare"}
TaskFunction(kind) ==
    CASE kind \in {"srix_read", "srix_compare"} -> "nfcReadTaskSRIX"
      [] kind \in {"mifare_read", "mifare_compare"} -> "nfcReadTaskMifare"
      [] OTHER -> "nfcWriteSelectiveTaskMifare"
EngineOf(fn) ==
    IF fn \in {"nfcReadTaskSRIX", "srix_read"} THEN "srix" ELSE "mifare"
SerialCommands == {"srix_read", "mifare_read"}

----------------------------------------------------------------------------
\* the state after construction, whatever stands in the field
Constructed ==
    /\ halted = FALSE
    /\ authSector = -1
    /\ pn532ok \in BOOLEAN
    /\ rf_weak = FALSE
    /\ glitches = 0
    /\ uid = ZeroBytes(MIFARE_UID_MAX_SIZE)
    /\ uid_length = 0
    /\ sak = 0
    /\ atqa = <<0, 0>>
    /\ card_type = "CARD_UNKNOWN"
    /\ total_blocks = 0
    /\ blocks_read = 0
    /\ dump_valid = FALSE
    /\ dump = [b \in AllBlocks |-> ZeroBlock]
    /\ sector_auth_success = [s \in AllSectors |-> FALSE]
    /\ sector_keys = [s \in AllSectors |-> NoSectorKeys]
    /\ initialized = FALSE
    /\ mifare_handler = "null"
    /\ current_tag = ZeroTag
    /\ current_protocol = "PROTOCOL_UNKNOWN"
    /\ pc = "idle"
    /\ op = "none"
    /\ sector = 0
    /\ stage = "none"
    /\ ki = 0
    /\ cached_key_a = NoKey
    /\ cached_key_b = NoKey
    /\ secres = SUCCESS
    /\ req = << >>
    /\ reqi = 1
    /\ blocks_written = 0
    /\ result = Result(FALSE, -1)
    /\ nops = 0
    /\ hw = << >>
    /\ pendingFail = FALSE
    /\ attempts = << >>
    /\ cascStart = [a |-> NoKey, b |-> NoKey]
    /\ cascRes = "none"
    /\ wlog = << >>
    /\ block0 = << >>
    /\ visited = << >>
    /\ rlog = {}
    /\ authlog = {}
    /\ scanFound = << >>
    /\ mfc_file = "none"
    /\ held = {}
    /\ srix_files = SrixFolder
    /\ srix_uid = ZeroBytes(SRIX_UID_SIZE)
    /\ srix_dump = SrixZeroDump
    /\ dump_valid_from_read = FALSE
    /\ dump_valid_from_load = FALSE
    /\ srix_handler = "null"
    /\ file_arg = 0
    /\ slog = << >>
    /\ srix_image = SrixZeroDump
    /\ message = ""
    /\ taskData = [i \in Requests |-> NoRecord]
    /\ task = [i \in Requests |-> NoTask]
    /\ handler = HandlerIdle
    /\ serial = SerialIdle
    /\ responseDoc = EmptyDoc
    /\ before_compare = [id |-> 0]
    /\ compared = << >>
    /\ wild_writes = {}
    /\ load_arg = [filename |-> << >>, protocol |-> "PROTOCOL_UNKNOWN", at |-> 0]
    /\ _keys = << >>
    /\ _loaded = FALSE
    /\ key_call = [op |-> "none", arg |-> << >>, ret |-> FALSE, n |-> 0,
                   prev |-> "none", fresh |-> FALSE, working |-> TRUE]

Init ==
    /\ Constructed
    /\ card \in Cards \cup {NoCard}
    /\ keys \in KeyStores
    /\ tag = NoTag
    /\ antenna = NothingPresented
    /\ keys_file = [exists |-> FALSE, lines |-> << >>, open |-> FALSE]
    /\ addr = [done |-> FALSE]
    /\ read_call = [stage |-> "none"]
    /\ mfc_folder = << >>
    /\ save_call = [n |-> 0]
    /\ write_req = [hpc |-> "none"]

----------------------------------------------------------------------------
(* UID text: uidToString of the engine, stringToUid of the coordinator.    *)
(* A hex string is the sequence of its digits' values.                     *)

RECURSIVE uidToString(_, _)
\* two digits per byte, the separating spaces already removed
uidToString(u, n) ==
    IF n = 0 THEN << >>
    ELSE uidToString(u, n - 1) \o <<u[n] \div 16, u[n] % 16>>

stringToUid(str) ==
    LET len == IF Len(str) \div 2 > MIFARE_UID_MAX_SIZE
               THEN MIFARE_UID_MAX_SIZE ELSE Len(str) \div 2
    IN  [length |-> len,
         uid |-> [i \in 1 .. MIFARE_UID_MAX_SIZE |->
                    IF i <= len THEN (str[(2 * i) - 1] * 16) + str[2 * i] ELSE 0]]

----------------------------------------------------------------------------
(* Coordinator: initialisation and the lazily constructed engine *)

NFCManagerBegin ==
    /\ pc = "idle"
    /\ ~initialized
    /\ initialized' = TRUE
    /\ hw' = << >>
    /\ UNCHANGED <<envVars, keys, engVars, mifare_handler, current_tag,
                   current_protocol, ctlVars, pendingFail, cascObs, wlog, block0,
                   readObs>>
    /\ UNCHANGED <<fileVars, srixVars>>
    /\ UNCHANGED sideVars

\* beginMifare(): an existing handler is reused; a new one is deleted again
\* when the PN532 does not answer
beginMifare ==
    IF mifare_handler # "null"
    THEN [ok |-> TRUE, handler |-> mifare_handler, calls |-> << >>]
    ELSE IF pn532ok
    THEN [ok |-> TRUE, handler |-> "ready", calls |-> <<Begin(TRUE)>>]
    ELSE [ok |-> FALSE, handler |-> "null", calls |-> <<Begin(FALSE)>>]

\* saveMifare/loadMifare: "new MifareTool(true)" and begin(), the handler
\* is kept when begin() fails
createMifareForFile ==
    IF mifare_handler # "null"
    THEN [ok |-> TRUE, handler |-> mifare_handler, calls |-> << >>]
    ELSE IF pn532ok
    THEN [ok |-> TRUE, handler |-> "ready", calls |-> <<Begin(TRUE)>>]
    ELSE [ok |-> FALSE, handler |-> "uninit", calls |-> <<Begin(FALSE)>>]

\* a coordinator call starts: nothing observed yet
OpStart(name) ==
    /\ pc = "idle"
    /\ nops < MaxOps
    /\ nops' = nops + 1
    /\ op' = name
    /\ attempts' = << >>
    /\ cascStart' = [a |-> NoKey, b |-> NoKey]
    /\ cascRes' = "none"
    /\ wlog' = << >>
    /\ block0' = << >>
    /\ visited' = << >>
    /\ rlog' = {}
    /\ authlog' = {}
    /\ scanFound' = << >>

\* the call returns r
Return(r) ==
    /\ pc' = "idle"
    /\ result' = r

----------------------------------------------------------------------------
(* detectCard(): select, type the card on block 64, select again *)

identifyCardType(okAuth) == IF okAuth THEN "CARD_MIFARE_4K" ELSE "CARD_MIFARE_1K"

detectCard(okAuth) ==
    IF ~SelectOk(card)
    THEN [detected |-> FALSE, calls |-> <<Sel(FALSE)>>,
          uid |-> uid, uid_length |-> uid_length, card_type |-> card_type,
          sak |-> sak, atqa |-> atqa, total_blocks |-> total_blocks]
    ELSE LET t == identifyCardType(okAuth)
         IN  [detected |-> TRUE,
              calls |-> <<Sel(TRUE),
                          Auth(TYPE_PROBE_BLOCK, "A", DEFAULT_KEY, okAuth),
                          Sel(TRUE)>>,
              uid |-> MemCpy(uid, card.uid, Len(card.uid)),
              uid_length |-> Len(card.uid),
              card_type |-> t,
              sak |-> IF t = "CARD_MIFARE_1K" THEN 8 ELSE 24,
              atqa |-> IF t = "CARD_MIFARE_1K" THEN <<4, 0>> ELSE <<2, 0>>,
              total_blocks |-> IF t = "CARD_MIFARE_1K"
                               THEN MIFARE_1K_BLOCKS ELSE MIFARE_4K_BLOCKS]

GlitchChoice == IF glitches < MaxGlitches THEN BOOLEAN ELSE {FALSE}

\* one turn of "while (!detectCard(..)) { if (timeout) return; delay }":
\* d is the detection, g whether the field weakens afterwards
DetectTurn(d, g) ==
    /\ uid' = d.uid
    /\ uid_length' = d.uid_length
    /\ card_type' = d.card_type
    /\ sak' = d.sak
    /\ atqa' = d.atqa
    /\ total_blocks' = d.total_blocks
    /\ Transport(d.calls, IF d.detected THEN g ELSE rf_weak)
    /\ glitches' = IF d.detected /\ g THEN glitches + 1 ELSE glitches

ProbeOutcomes == AuthOutcomes(card, FALSE, rf_weak, TYPE_PROBE_BLOCK, "A", DEFAULT_KEY)

----------------------------------------------------------------------------
(* readMifare -> read_tag_headless -> readAllBlocks -> readSectorWithCache *)

ReadMifare ==
    /\ OpStart("read")
    /\ LET bm == beginMifare
       IN  IF ~initialized
           THEN /\ Return(Result(FALSE, -1))
                /\ Transport(<< >>, rf_weak)
                /\ UNCHANGED mifare_handler
           ELSE /\ mifare_handler' = bm.handler
                /\ Transport(bm.calls, rf_weak)
                /\ IF bm.ok
                   THEN pc' = "r_detect" /\ UNCHANGED result
                   ELSE Return(Result(FALSE, -1))
    /\ UNCHANGED <<card, glitches, keys, engVars, initialized, current_tag,
                   current_protocol, cascLocals, hintVars, secres, reqVars>>
    /\ UNCHANGED <<fileVars, srixVars>>
    /\ UNCHANGED sideVars

\* the cascade of the sector s starts with the hints a, b
ReadCascadeStart(s, a, b) ==
    LET fs == FirstStage(a # NoKey, b # NoKey, Cardinality(keys))
    IN  /\ sector' = s
        /\ stage' = fs.stage
        /\ ki' = fs.ki
        /\ attempts' = << >>
        /\ cascStart' = [a |-> a, b |-> b]
        /\ cascRes' = "running"
        /\ visited' = Append(visited, s)

ReadDetect ==
    /\ pc = "r_detect"
    /\ \E okAuth \in ProbeOutcomes, g \in GlitchChoice, timeout \in BOOLEAN :
         LET d == detectCard(okAuth)
         IN  /\ DetectTurn(d, g)
             /\ IF d.detected
                THEN \* _blocks_read = 0; readAllBlocks()
                     /\ ~timeout
                     /\ blocks_read' = 0
                     /\ held' = {}
                     /\ cached_key_a' = NoKey
                     /\ cached_key_b' = NoKey
                     /\ ReadCascadeStart(0, NoKey, NoKey)
                     /\ pc' = "r_auth"
                     /\ UNCHANGED result
                ELSE /\ IF timeout THEN Return(Result(FALSE, -1))
                        ELSE UNCHANGED <<pc, result>>
                     /\ UNCHANGED <<blocks_read, hintVars, cascLocals, cascObs, visited,
                                    held>>
    /\ UNCHANGED <<card, keys, dump_valid, dump, sector_auth_success, sector_keys,
                   mgrVars, op, secres, reqVars, nops, wlog, block0, rlog,
                   authlog, scanFound>>
    /\ UNCHANGED <<mfc_file, srixVars>>
    /\ UNCHANGED sideVars

\* one authentication attempt of readSectorWithCache, with the
\* reactivateCard() that follows a failed one
ReadSectorAuth ==
    /\ pc = "r_auth"
    /\ IF stage = "none"
       THEN /\ cascRes' = "failed"
            /\ secres' = ERROR_AUTH_FAILED
            /\ pc' = "r_next"
            /\ Transport(<< >>, rf_weak)
            /\ UNCHANGED <<stage, ki, hintVars, sector_keys, attempts, authlog, scanFound>>
       ELSE LET fb == getFirstBlockOfSector(sector)
                kt == StageKt(stage)
                k == CASE stage = "cachedA" -> cached_key_a
                       [] stage = "cachedB" -> cached_key_b
                       [] OTHER -> KeySeq(keys)[ki]
            IN  \E ok \in AuthOutcomes(card, halted, rf_weak, fb, kt, k) :
                  /\ attempts' = Append(attempts, Attempt(stage, k, ok))
                  /\ IF ok
                     THEN /\ Transport(<<Auth(fb, kt, k, TRUE)>>, FALSE)
                          /\ sector_keys' =
                               [sector_keys EXCEPT ![sector] =
                                  IF kt = "A"
                                  THEN [@ EXCEPT !.key_a = k, !.key_a_valid = TRUE]
                                  ELSE [@ EXCEPT !.key_b = k, !.key_b_valid = TRUE]]
                          /\ cached_key_a' = IF stage = "dbA" THEN k ELSE cached_key_a
                          /\ cached_key_b' = IF stage = "dbB" THEN k ELSE cached_key_b
                          /\ authlog' = authlog \cup {<<sector, kt, k>>}
                          /\ scanFound' = IF StageSrc(stage) = "db"
                                          THEN Append(scanFound,
                                                 [sector |-> sector, kt |-> kt, k |-> k])
                                          ELSE scanFound
                          /\ cascRes' = "ok"
                          /\ pc' = "r_block"
                          /\ UNCHANGED <<stage, ki, secres>>
                     ELSE LET ns == NextStage(stage, ki, cached_key_b # NoKey,
                                              Cardinality(keys))
                          IN  /\ Transport(<<Auth(fb, kt, k, FALSE),
                                             Sel(SelectOk(card))>>, FALSE)
                              /\ stage' = ns.stage
                              /\ ki' = ns.ki
                              /\ IF ns.stage = "none"
                                 THEN /\ cascRes' = "failed"
                                      /\ secres' = ERROR_AUTH_FAILED
                                      /\ pc' = "r_next"
                                 ELSE UNCHANGED <<cascRes, secres, pc>>
                              /\ UNCHANGED <<hintVars, sector_keys, authlog, scanFound>>
    /\ UNCHANGED <<card, glitches, keys, detectVars, blocks_read, dump_valid, dump,
                   sector_auth_success, mgrVars, op, sector, reqVars,
                   result, nops, cascStart, wlog, block0, visited, rlog>>
    /\ UNCHANGED <<fileVars, srixVars>>
    /\ UNCHANGED sideVars

\* the trailer of the sector s rebuilt from the keys stored for it
ReconstructTrailer(d, s) ==
    LET tb == TrailerOfSector(s)
        sk == sector_keys[s]
    IN  [d EXCEPT ![tb] = <<IF sk.key_a_valid THEN sk.key_a ELSE @[1],
                            @[2],
                            IF sk.key_b_valid THEN sk.key_b ELSE @[3]>>]

\* the block loop of readSectorWithCache stops at the first block the card
\* does not return: the number of blocks of the sector s it reads
BlocksReadable(s) ==
    LET bad == {off \in 0 .. (getBlockCountInSector(s) - 1) :
                  ~ReadOk(card, authSector, getFirstBlockOfSector(s) + off)}
    IN  IF bad = {} THEN getBlockCountInSector(s) ELSE MinOf(bad)

\* the blocks of the authenticated sector are read into the dump; after the
\* last one the trailer is rebuilt
ReadSectorBlock ==
    /\ pc = "r_block"
    /\ \E n \in {BlocksReadable(sector)} :
         LET fb == getFirstBlockOfSector(sector)
             cnt == getBlockCountInSector(sector)
             d == [b \in AllBlocks |->
                     IF fb <= b /\ b < fb + n THEN Readback(card, b) ELSE dump[b]]
         IN  /\ Transport([i \in 1 .. (IF n < cnt THEN n + 1 ELSE n) |->
                             Rd(fb + i - 1, i <= n)], rf_weak)
             /\ blocks_read' = blocks_read + n
             /\ rlog' = rlog \cup {fb + off : off \in 0 .. (n - 1)}
             /\ held' = held \cup {fb + off : off \in 0 .. (n - 1)}
             /\ dump' = IF n = cnt THEN ReconstructTrailer(d, sector) ELSE d
             /\ secres' = IF n = cnt THEN SUCCESS ELSE ERROR_READ_FAILED
             /\ pc' = "r_next"
    /\ UNCHANGED <<card, glitches, keys, detectVars, dump_valid, sector_auth_success,
                   sector_keys, mgrVars, op, sector, stage, ki, hintVars, reqVars,
                   result, nops, cascObs, wlog, block0, visited, authlog, scanFound>>
    /\ UNCHANGED <<mfc_file, srixVars>>
    /\ UNCHANGED sideVars

\* the TagInfo readMifare fills from the engine
ReadTagInfo ==
    LET u == stringToUid(uidToString(uid, uid_length))
    IN  TagInfo(TRUE, "PROTOCOL_MIFARE_CLASSIC", cardTypeToString(card_type),
                u.uid, u.length,
                [b \in 0 .. (TAGINFO_MIFARE_BLOCKS - 1) |-> dump[b]], 16)

\* faulty variant: the pass ends at the first sector that fails
ReadAllBlocksNext_StopsAtFailure ==
    /\ pc = "r_next"
    /\ sector_auth_success' = [sector_auth_success EXCEPT ![sector] = (secres = SUCCESS)]
    /\ IF sector + 1 < getSectorCount(card_type) /\ secres = SUCCESS
       THEN /\ ReadCascadeStart(sector + 1, cached_key_a, cached_key_b)
            /\ pc' = "r_auth"
            /\ UNCHANGED <<dump_valid, current_tag, current_protocol, result>>
       ELSE /\ dump_valid' = (blocks_read > 0)
            /\ current_tag' = ReadTagInfo
            /\ current_protocol' = "PROTOCOL_MIFARE_CLASSIC"
            /\ Return(Result(TRUE, 0))
            /\ UNCHANGED <<cascLocals, cascObs, visited>>
    /\ Transport(<< >>, rf_weak)
    /\ UNCHANGED <<card, glitches, keys, detectVars, blocks_read, dump, sector_keys,
                   initialized, mifare_handler, op, hintVars, secres, reqVars, nops,
                   wlog, block0, rlog, authlog, scanFound>>
    /\ UNCHANGED <<fileVars, srixVars>>
    /\ UNCHANGED sideVars

\* readAllBlocks: the sector's result is recorded and the next sector begins;
\* after the last one read_tag_headless and readMifare finish
ReadAllBlocksNext ==
    /\ pc = "r_next"
    /\ sector_auth_success' = [sector_auth_success EXCEPT ![sector] = (secres = SUCCESS)]
    /\ IF sector + 1 < getSectorCount(card_type)
       THEN /\ ReadCascadeStart(sector + 1, cached_key_a, cached_key_b)
            /\ pc' = "r_auth"
            /\ UNCHANGED <<dump_valid, current_tag, current_protocol, result>>
       ELSE /\ dump_valid' = (blocks_read > 0)
            /\ current_tag' = ReadTagInfo
            /\ current_protocol' = "PROTOCOL_MIFARE_CLASSIC"
            /\ Return(Result(TRUE, 0))
            /\ UNCHANGED <<cascLocals, cascObs, visited>>
    /\ Transport(<< >>, rf_weak)
    /\ UNCHANGED <<card, glitches, keys, detectVars, blocks_read, dump, sector_keys,
                   initialized, mifare_handler, op, hintVars, secres, reqVars, nops,
                   wlog, block0, rlog, authlog, scanFound>>
    /\ UNCHANGED <<fileVars, srixVars>>
    /\ UNCHANGED sideVars

----------------------------------------------------------------------------
(* writeMifare -> write_tag_headless -> writeSector *)

\* memcpy of the TagInfo's 1K dump into the engine's dump
DumpFromTag(info) ==
    [b \in AllBlocks |-> IF b < TAGINFO_MIFARE_BLOCKS THEN info.dump[b] ELSE dump[b]]

WriteMifare ==
    /\ OpStart("write")
    /\ LET bm == beginMifare
           info == current_tag
       IN  IF ~initialized
           THEN /\ Return(Result(FALSE, -1))
                /\ Transport(<< >>, rf_weak)
                /\ UNCHANGED <<mifare_handler, dump, uid, dump_valid>>
           ELSE /\ mifare_handler' = bm.handler
                /\ Transport(bm.calls, rf_weak)
                /\ IF ~bm.ok
                   THEN /\ Return(Result(FALSE, -1))
                        /\ UNCHANGED <<dump, uid, dump_valid>>
                   ELSE IF ~info.valid \/ info.protocol # "PROTOCOL_MIFARE_CLASSIC"
                   THEN /\ Return(Result(FALSE, -2))
                        /\ UNCHANGED <<dump, uid, dump_valid>>
                   ELSE /\ dump' = DumpFromTag(info)
                        /\ uid' = MemCpy(uid, info.uid, info.uid_length)
                        /\ dump_valid' = TRUE
                        /\ pc' = "w_detect"
                        /\ UNCHANGED result
    /\ UNCHANGED <<card, glitches, keys, uid_length, sak, atqa, card_type,
                   total_blocks, blocks_read, sector_auth_success, sector_keys,
                   initialized, current_tag, current_protocol, cascLocals,
                   hintVars, secres, reqVars>>
    /\ UNCHANGED <<fileVars, srixVars>>
    /\ UNCHANGED sideVars

\* the cascade of writeSector / writeSingleBlock starts on the sector s with
\* the keys stored for it
WriteCascadeStart(s) ==
    LET sk == sector_keys[s]
        fs == FirstStage(sk.key_a_valid, sk.key_b_valid, Cardinality(keys))
    IN  /\ sector' = s
        /\ stage' = fs.stage
        /\ ki' = fs.ki
        /\ attempts' = << >>
        /\ cascStart' = [a |-> IF sk.key_a_valid THEN sk.key_a ELSE NoKey,
                         b |-> IF sk.key_b_valid THEN sk.key_b ELSE NoKey]
        /\ cascRes' = "running"

WriteDetect ==
    /\ pc = "w_detect"
    /\ \E okAuth \in ProbeOutcomes, g \in GlitchChoice, timeout \in BOOLEAN :
         LET d == detectCard(okAuth)
         IN  /\ DetectTurn(d, g)
             /\ IF d.detected
                THEN ~timeout /\ pc' = "w_verify" /\ UNCHANGED result
                ELSE IF timeout THEN Return(Result(FALSE, ERROR_NO_TAG))
                ELSE UNCHANGED <<pc, result>>
    /\ UNCHANGED <<card, keys, blocks_read, dump_valid, dump, sector_auth_success,
                   sector_keys, mgrVars, op, cascLocals, hintVars, secres, reqVars,
                   nops, cascObs, wlog, block0, readObs>>
    /\ UNCHANGED <<fileVars, srixVars>>
    /\ UNCHANGED sideVars

\* "if (identifyCardType() != _card_type)": the card is typed again, and once
\* more for the error message
WriteVerifyType ==
    /\ pc = "w_verify"
    /\ \E ok1 \in AuthOutcomes(card, halted, rf_weak, TYPE_PROBE_BLOCK, "A", DEFAULT_KEY) :
         IF identifyCardType(ok1) # card_type
         THEN \E ok2 \in AuthOutcomes(card, ~ok1, FALSE, TYPE_PROBE_BLOCK, "A", DEFAULT_KEY) :
                /\ Transport(<<Auth(TYPE_PROBE_BLOCK, "A", DEFAULT_KEY, ok1),
                               Auth(TYPE_PROBE_BLOCK, "A", DEFAULT_KEY, ok2)>>, FALSE)
                /\ Return(Result(FALSE, ERROR_INVALID_DATA))
                /\ UNCHANGED <<cascLocals, cascObs>>
         ELSE /\ Transport(<<Auth(TYPE_PROBE_BLOCK, "A", DEFAULT_KEY, ok1)>>, FALSE)
              /\ WriteCascadeStart(0)
              /\ pc' = "w_auth"
              /\ UNCHANGED result
    /\ UNCHANGED <<card, glitches, keys, engVars, mgrVars, op, hintVars, secres,
                   reqVars, nops, wlog, block0, readObs>>
    /\ UNCHANGED <<fileVars, srixVars>>
    /\ UNCHANGED sideVars

\* one authentication attempt of writeSector / writeSingleBlock with the
\* reactivateCard() after a failed one; okPc is where the writes begin
SavedKeysAttempt(okPc) ==
    /\ IF stage = "none"
       THEN /\ cascRes' = "failed"
            /\ Return(Result(FALSE, ERROR_AUTH_FAILED))
            /\ Transport(<< >>, rf_weak)
            /\ UNCHANGED <<stage, ki, attempts>>
       ELSE LET fb == getFirstBlockOfSector(sector)
                kt == StageKt(stage)
                k == CASE stage = "cachedA" -> sector_keys[sector].key_a
                       [] stage = "cachedB" -> sector_keys[sector].key_b
                       [] OTHER -> KeySeq(keys)[ki]
            IN  \E ok \in AuthOutcomes(card, halted, rf_weak, fb, kt, k) :
                  /\ attempts' = Append(attempts, Attempt(stage, k, ok))
                  /\ IF ok
                     THEN /\ Transport(<<Auth(fb, kt, k, TRUE)>>, FALSE)
                          /\ cascRes' = "ok"
                          /\ pc' = okPc
                          /\ UNCHANGED <<stage, ki, result>>
                     ELSE LET ns == NextStage(stage, ki, sector_keys[sector].key_b_valid,
                                              Cardinality(keys))
                          IN  /\ Transport(<<Auth(fb, kt, k, FALSE),
                                             Sel(SelectOk(card))>>, FALSE)
                              /\ stage' = ns.stage
                              /\ ki' = ns.ki
                              /\ IF ns.stage = "none"
                                 THEN /\ cascRes' = "failed"
                                      /\ Return(Result(FALSE, ERROR_AUTH_FAILED))
                                 ELSE UNCHANGED <<cascRes, pc, result>>
    /\ UNCHANGED <<card, glitches, keys, engVars, mgrVars, op, sector,
                   hintVars, secres, reqVars, nops, cascStart, wlog, block0, readObs>>
    /\ UNCHANGED <<fileVars, srixVars>>

WriteSectorAuth ==
    /\ pc = "w_auth"
    /\ SavedKeysAttempt("w_block")
    /\ UNCHANGED sideVars

\* faulty variant: the sector trailer is written like a data block
SkippedInSector_TrailerWritten(s, off) ==
    s = 0 /\ off = 0

\* writeSector skips block 0 and the sector trailer
SkippedInSector(s, off) ==
    \/ (s = 0 /\ off = 0)
    \/ off = getBlockCountInSector(s) - 1

\* the blocks writeSector writes in the sector s, ascending
WritableBlocks(s) ==
    SortedSeq({getFirstBlockOfSector(s) + off :
                 off \in {o \in 0 .. (getBlockCountInSector(s) - 1) :
                            ~SkippedInSector(s, o)}})

\* faulty variant: a failed block write does not end the sector
BlocksAttempted_GoesOnAfterFailure(bs) == Len(bs)

\* the block loop of writeSector returns at the first write that fails: the
\* number of the blocks bs it attempts
BlocksAttempted(bs) ==
    LET bad == {i \in 1 .. Len(bs) : ~WriteOk(card, authSector, bs[i])}
    IN  IF bad = {} THEN Len(bs) ELSE MinOf(bad)

\* the card after mifareclassic_WriteDataBlock succeeded on the blocks W
CardAfterWrite(c, W) ==
    [c EXCEPT !.mem = [b \in DOMAIN c.mem |-> IF b \in W THEN dump[b] ELSE c.mem[b]]]

\* the blocks of the authenticated sector are written; then the timeout
\* check of write_tag_headless, the next sector or the end of the write
WriteSectorBlock ==
    /\ pc = "w_block"
    /\ \E bs \in {WritableBlocks(sector)} :
       \E n \in {BlocksAttempted(bs)} :
       \E okAt \in {[i \in 1 .. n |-> WriteOk(card, authSector, bs[i])]} :
       \E W \in {{bs[i] : i \in {j \in 1 .. n : okAt[j]}}} :
           /\ Transport([i \in 1 .. n |-> Wr(bs[i], okAt[i])], rf_weak)
           /\ wlog' = wlog \o [i \in 1 .. n |-> [b |-> bs[i], ok |-> okAt[i]]]
           /\ card' = IF W = {} THEN card ELSE CardAfterWrite(card, W)
           /\ IF \E i \in 1 .. n : ~okAt[i]
              THEN /\ Return(Result(FALSE, ERROR_WRITE_FAILED))
                   /\ UNCHANGED <<cascLocals, cascObs>>
              ELSE \E timeout \in BOOLEAN :
                     IF timeout
                     THEN /\ Return(Result(FALSE, ERROR_NO_TAG))
                          /\ UNCHANGED <<cascLocals, cascObs>>
                     ELSE IF sector + 1 < getSectorCount(card_type)
                     THEN /\ WriteCascadeStart(sector + 1)
                          /\ pc' = "w_auth"
                          /\ UNCHANGED result
                     ELSE /\ Return(Result(TRUE, SUCCESS))
                          /\ UNCHANGED <<cascLocals, cascObs>>
    /\ UNCHANGED <<glitches, keys, engVars, mgrVars, op, hintVars, secres, reqVars,
                   nops, block0, readObs>>
    /\ UNCHANGED <<fileVars, srixVars>>
    /\ UNCHANGED sideVars

----------------------------------------------------------------------------
(* writeMifareBlocksSelective -> write_single_block_headless ->            *)
(* writeSingleBlock                                                        *)

WriteMifareBlocksSelective ==
    /\ OpStart("selective")
    /\ \E blocks \in BlockLists \cup {<< >>} :
         LET bm == beginMifare
         IN  /\ req' = blocks
             /\ reqi' = 1
             /\ blocks_written' = 0
             /\ IF blocks = << >>
                THEN /\ Return(Result(FALSE, -3))
                     /\ Transport(<< >>, rf_weak)
                     /\ UNCHANGED mifare_handler
                ELSE IF ~current_tag.valid
                THEN /\ Return(Result(FALSE, -2))
                     /\ Transport(<< >>, rf_weak)
                     /\ UNCHANGED mifare_handler
                ELSE /\ mifare_handler' = bm.handler
                     /\ Transport(bm.calls, rf_weak)
                     /\ IF ~bm.ok
                        THEN Return(Result(FALSE, -1))
                        ELSE pc' = "s_next" /\ UNCHANGED result
    /\ UNCHANGED <<card, glitches, keys, engVars, initialized, current_tag,
                   current_protocol, cascLocals, hintVars, secres>>
    /\ UNCHANGED <<fileVars, srixVars>>
    /\ UNCHANGED sideVars

\* the checks write_single_block_headless makes before it touches the card
SingleBlockRejected(block) ==
    \/ ~dump_valid
    \/ block < 0
    \/ block >= total_blocks
    \/ block = UID_BLOCK
    \/ block = TrailerOfSector(SectorOfBlock(block))

\* the loop of writeMifareBlocksSelective reaches its next block: indices
\* of 64 and more are skipped, a rejected block ends the batch
SelectiveNext ==
    /\ pc = "s_next"
    /\ LET cand == {j \in reqi .. Len(req) : req[j] < TAGINFO_MIFARE_BLOCKS}
       IN  IF cand = {}
           THEN /\ reqi' = Len(req) + 1
                /\ Return(Result(TRUE, 0))
           ELSE /\ reqi' = MinOf(cand)
                /\ IF SingleBlockRejected(req[MinOf(cand)])
                   THEN Return(Result(FALSE, ERROR_INVALID_DATA))
                   ELSE pc' = "s_detect" /\ UNCHANGED result
    /\ Transport(<< >>, rf_weak)
    /\ UNCHANGED <<card, glitches, keys, engVars, mgrVars, op, cascLocals, hintVars,
                   secres, req, blocks_written, nops, cascObs, wlog, block0, readObs>>
    /\ UNCHANGED <<fileVars, srixVars>>
    /\ UNCHANGED sideVars

SingleDetect ==
    /\ pc = "s_detect"
    /\ \E okAuth \in ProbeOutcomes, g \in GlitchChoice, timeout \in BOOLEAN :
         LET d == detectCard(okAuth)
         IN  /\ DetectTurn(d, g)
             /\ IF d.detected
                THEN /\ ~timeout
                     /\ WriteCascadeStart(SectorOfBlock(req[reqi]))
                     /\ pc' = "s_auth"
                     /\ UNCHANGED result
                ELSE /\ IF timeout THEN Return(Result(FALSE, ERROR_NO_TAG))
                        ELSE UNCHANGED <<pc, result>>
                     /\ UNCHANGED <<cascLocals, cascObs>>
    /\ UNCHANGED <<card, keys, blocks_read, dump_valid, dump, sector_auth_success,
                   sector_keys, mgrVars, op, hintVars, secres, reqVars, nops, wlog,
                   block0, readObs>>
    /\ UNCHANGED <<fileVars, srixVars>>
    /\ UNCHANGED sideVars

SingleBlockAuth ==
    /\ pc = "s_auth"
    /\ SavedKeysAttempt("s_write")
    /\ UNCHANGED sideVars

SingleBlockWrite ==
    /\ pc = "s_write"
    /\ LET block == req[reqi]
           ok == WriteOk(card, authSector, block)
       IN  /\ Transport(<<Wr(block, ok)>>, rf_weak)
           /\ wlog' = Append(wlog, [b |-> block, ok |-> ok])
           /\ IF ok
              THEN /\ card' = CardAfterWrite(card, {block})
                   /\ blocks_written' = blocks_written + 1
                   /\ reqi' = reqi + 1
                   /\ pc' = "s_next"
                   /\ UNCHANGED result
              ELSE /\ Return(Result(FALSE, ERROR_WRITE_FAILED))
                   /\ UNCHANGED <<card, blocks_written, reqi>>
    /\ UNCHANGED <<glitches, keys, engVars, mgrVars, op, cascLocals, hintVars, secres,
                   req, nops, cascObs, block0, readObs>>
    /\ UNCHANGED <<fileVars, srixVars>>
    /\ UNCHANGED sideVars

----------------------------------------------------------------------------
(* cloneMifareUID -> clone_uid_headless -> writeBlock0 *)

CloneMifareUID ==
    /\ OpStart("clone")
    /\ LET bm == beginMifare
           info == current_tag
       IN  IF ~initialized
           THEN /\ Return(Result(FALSE, -1))
                /\ Transport(<< >>, rf_weak)
                /\ UNCHANGED <<mifare_handler, uid, dump_valid>>
           ELSE /\ mifare_handler' = bm.handler
                /\ Transport(bm.calls, rf_weak)
                /\ IF ~bm.ok
                   THEN /\ Return(Result(FALSE, -1))
                        /\ UNCHANGED <<uid, dump_valid>>
                   ELSE IF ~info.valid \/ info.protocol # "PROTOCOL_MIFARE_CLASSIC"
                   THEN /\ Return(Result(FALSE, -2))
                        /\ UNCHANGED <<uid, dump_valid>>
                   ELSE /\ uid' = MemCpy(uid, info.uid, info.uid_length)
                        /\ dump_valid' = TRUE
                        /\ IF uid_length = 0
                           THEN Return(Result(FALSE, ERROR_INVALID_DATA))
                           ELSE pc' = "c_detect" /\ UNCHANGED result
    /\ UNCHANGED <<card, glitches, keys, uid_length, sak, atqa, card_type,
                   total_blocks, blocks_read, dump, sector_auth_success, sector_keys,
                   initialized, current_tag, current_protocol, cascLocals,
                   hintVars, secres, reqVars>>
    /\ UNCHANGED <<fileVars, srixVars>>
    /\ UNCHANGED sideVars

CloneDetect ==
    /\ pc = "c_detect"
    /\ \E okAuth \in ProbeOutcomes, g \in GlitchChoice, timeout \in BOOLEAN :
         LET d == detectCard(okAuth)
             fs == FirstDbStage(Cardinality(keys))
         IN  /\ DetectTurn(d, g)
             /\ IF d.detected
                THEN /\ ~timeout
                     /\ sector' = 0
                     /\ stage' = fs.stage
                     /\ ki' = fs.ki
                     /\ attempts' = << >>
                     /\ cascStart' = [a |-> NoKey, b |-> NoKey]
                     /\ cascRes' = "running"
                     /\ pc' = "c_auth"
                     /\ UNCHANGED result
                ELSE /\ IF timeout THEN Return(Result(FALSE, ERROR_NO_TAG))
                        ELSE UNCHANGED <<pc, result>>
                     /\ UNCHANGED <<cascLocals, cascObs>>
    /\ UNCHANGED <<card, keys, blocks_read, dump_valid, dump, sector_auth_success,
                   sector_keys, mgrVars, op, hintVars, secres, reqVars, nops, wlog,
                   block0, readObs>>
    /\ UNCHANGED <<fileVars, srixVars>>
    /\ UNCHANGED sideVars

\* one authentication attempt of writeBlock0 on block 0
CloneAuth ==
    /\ pc = "c_auth"
    /\ IF stage = "none"
       THEN /\ cascRes' = "failed"
            /\ Return(Result(FALSE, ERROR_WRITE_FAILED))
            /\ Transport(<< >>, rf_weak)
            /\ UNCHANGED <<stage, ki, attempts>>
       ELSE LET kt == StageKt(stage)
                k == KeySeq(keys)[ki]
            IN  \E ok \in AuthOutcomes(card, halted, rf_weak, UID_BLOCK, kt, k) :
                  /\ attempts' = Append(attempts, Attempt(stage, k, ok))
                  /\ IF ok
                     THEN /\ Transport(<<Auth(UID_BLOCK, kt, k, TRUE)>>, FALSE)
                          /\ cascRes' = "ok"
                          /\ pc' = "c_write"
                          /\ UNCHANGED <<stage, ki, result>>
                     ELSE LET ns == NextStage(stage, ki, FALSE, Cardinality(keys))
                          IN  /\ Transport(<<Auth(UID_BLOCK, kt, k, FALSE),
                                             Sel(SelectOk(card))>>, FALSE)
                              /\ stage' = ns.stage
                              /\ ki' = ns.ki
                              /\ IF ns.stage = "none"
                                 THEN /\ cascRes' = "failed"
                                      /\ Return(Result(FALSE, ERROR_WRITE_FAILED))
                                 ELSE UNCHANGED <<cascRes, pc, result>>
    /\ UNCHANGED <<card, glitches, keys, engVars, mgrVars, op, sector,
                   hintVars, secres, reqVars, nops, cascStart, wlog, block0, readObs>>
    /\ UNCHANGED <<fileVars, srixVars>>
    /\ UNCHANGED sideVars

\* the block-0 payload clone_uid_headless builds: UID, BCC, SAK, ATQA
BuildBlock0(u, n, s, a) ==
    [i \in 1 .. MIFARE_BLOCK_SIZE |->
        IF i <= n THEN u[i]
        ELSE IF i = n + 1 THEN XorOfBytes(u, n)
        ELSE IF i = n + 2 THEN s
        ELSE IF i = n + 3 THEN a[2]
        ELSE IF i = n + 4 THEN a[1]
        ELSE 0]

CloneWrite ==
    /\ pc = "c_write"
    /\ LET payload == BuildBlock0(uid, uid_length, sak, atqa)
           ok == WriteOk(card, authSector, UID_BLOCK)
       IN  /\ Transport(<<Wr(UID_BLOCK, ok)>>, rf_weak)
           /\ wlog' = Append(wlog, [b |-> UID_BLOCK, ok |-> ok])
           /\ block0' = payload
           /\ IF ok
              THEN /\ card' = [card EXCEPT !.uid = SubSeq(payload, 1, uid_length)]
                   /\ Return(Result(TRUE, 0))
              ELSE /\ Return(Result(FALSE, ERROR_WRITE_FAILED))
                   /\ UNCHANGED card
    /\ UNCHANGED <<glitches, keys, engVars, mgrVars, op, cascLocals, hintVars, secres,
                   reqVars, nops, cascObs, readObs>>
    /\ UNCHANGED <<fileVars, srixVars>>
    /\ UNCHANGED sideVars

----------------------------------------------------------------------------
(* loadMifare -> load_file_headless -> parseFileFormat, extractKeysFromDump *)

\* the keys of every sector whose trailer lies within the loaded pages
extractKeysFromDump(d, type, nread) ==
    [s \in AllSectors |->
        IF s < getSectorCount(type) /\ TrailerOfSector(s) < nread
        THEN [key_a |-> d[TrailerOfSector(s)][1], key_a_valid |-> TRUE,
              key_b |-> d[TrailerOfSector(s)][3], key_b_valid |-> TRUE]
        ELSE sector_keys[s]]

\* faulty variant: the record is marked invalid on the way out
KeepCurrentTag_Invalidated ==
    /\ current_tag' = [current_tag EXCEPT !.valid = FALSE]
    /\ UNCHANGED current_protocol

\* a read or load returns before its "_current_tag = info"
KeepCurrentTag == UNCHANGED <<current_tag, current_protocol>>

loadMifare ==
    /\ OpStart("load")
    /\ \E f \in Files :
       \* a length beyond the UID buffers is followed no further: such a file
       \* is loaded as the last operation of a run
       /\ (Len(f.uid) > MIFARE_UID_MAX_SIZE => nops = MaxOps - 1)
       \* memcpy(info.uid, getUID(), info.uid_length) past the 10 bytes of
       \* info.uid runs over info.uid_length: it keeps its value or loses it
       /\ \E ulen \in (IF Len(f.uid) > MIFARE_UID_MAX_SIZE THEN {Len(f.uid), 0}
                    ELSE {Len(f.uid)}) :
         LET cm == createMifareForFile
             n == Len(f.pages)
             d == [b \in AllBlocks |-> IF b < n THEN f.pages[b + 1] ELSE dump[b]]
             u == MemCpy(uid, f.uid, Len(f.uid))
         IN  IF ~initialized
             THEN /\ Return(Result(FALSE, -1))
                  /\ Transport(<< >>, rf_weak)
                  /\ KeepCurrentTag
                  /\ UNCHANGED <<mifare_handler, engVars, held>>
             ELSE /\ mifare_handler' = cm.handler
                  /\ Transport(cm.calls, rf_weak)
                  /\ IF ~cm.ok
                     THEN /\ Return(Result(FALSE, -1))
                          /\ KeepCurrentTag
                          /\ UNCHANGED <<engVars, held>>
                     ELSE /\ blocks_read' = n
                          /\ held' = 0 .. (n - 1)
                          /\ card_type' = f.type
                          /\ uid_length' = Len(f.uid)
                          /\ uid' = u
                          /\ sak' = f.sak
                          /\ atqa' = f.atqa
                          /\ dump' = d
                          /\ total_blocks' = TotalBlocksOf(f.type)
                          /\ dump_valid' = TRUE
                          /\ sector_keys' = extractKeysFromDump(d, f.type, n)
                          /\ current_tag' =
                               TagInfo(TRUE, "PROTOCOL_MIFARE_CLASSIC",
                                       cardTypeToString(f.type),
                                       MemCpy(ZeroBytes(MIFARE_UID_MAX_SIZE), u, Len(f.uid)),
                                       ulen,
                                       [b \in 0 .. (TAGINFO_MIFARE_BLOCKS - 1) |-> d[b]],
                                       IF f.type = "CARD_MIFARE_1K" THEN 16 ELSE 40)
                          /\ current_protocol' = "PROTOCOL_MIFARE_CLASSIC"
                          /\ Return(Result(TRUE, 0))
                          /\ UNCHANGED sector_auth_success
    /\ UNCHANGED <<card, glitches, keys, initialized, cascLocals, hintVars, secres,
                   reqVars>>
    /\ UNCHANGED <<mfc_file, srixVars>>

\* loadMifare() called by the serial console
LoadMifare ==
    /\ loadMifare
    /\ UNCHANGED sideVars

----------------------------------------------------------------------------
(* saveMifare -> save_file_headless -> writeFileFormat; parseFileFormat    *)
(* on the text written.  A .mfc file is its lines: the device type, the    *)
(* digits of the UID, SAK and ATQA lines (spaces left out, as the parser   *)
(* removes them), the page counts and the "Page n:" lines in file order.   *)

\* the digits of a block, field by field
BlockHex(blk) == HexOfBytes(blk, Len(blk))

\* writeFileFormat() of the engine's fields with the dump d and the UID u
writeFileFormat(d, u) ==
    [device |-> cardTypeToString(card_type),
     uid |-> HexOfBytes(u, uid_length),
     sak |-> HexOfByte(sak),
     atqa |-> HexOfByte(atqa[2]) \o HexOfByte(atqa[1]),
     total |-> total_blocks,
     partial |-> blocks_read < total_blocks,
     pages |-> [i \in 1 .. blocks_read |-> [num |-> i - 1, data |-> BlockHex(d[i - 1])]]]

\* hexStringToBytes(): the bytes of the string, max_len at most
hexStringToBytes(hex, max_len) ==
    [i \in 1 .. (IF Len(hex) \div HEX_CHARS_PER_BYTE < max_len
                 THEN Len(hex) \div HEX_CHARS_PER_BYTE ELSE max_len) |->
       ByteOfHex(hex, i - 1)]

\* the "Page" lines parseFileFormat stores: those with the digits of a
\* whole block
StoredPages(pages) == SelectSeq(pages, LAMBDA pg : Len(pg.data) = Len(BlockHex(ZeroBlock)))

\* parseFileFormat() of the text t: the header fields and the pages in the
\* order of their lines, the page number of a line is not read
parseFileFormat(t) ==
    [type |-> IF t.device = "Mifare Classic 1K" THEN "CARD_MIFARE_1K"
              ELSE IF t.device = "Mifare Classic 4K" THEN "CARD_MIFARE_4K"
              ELSE card_type,
     uid |-> hexStringToBytes(t.uid, MIFARE_UID_MAX_SIZE),
     sak |-> strtoul(t.sak),
     atqa |-> MemCpy(atqa, hexStringToBytes(t.atqa, 2), 2),
     pages |-> [i \in 1 .. Len(StoredPages(t.pages)) |->
                  hexStringToBytes(StoredPages(t.pages)[i].data, Len(ZeroBlock))]]

\* save(name) of a Mifare record: saveMifare(_current_tag, name)
SaveMifare ==
    /\ OpStart("save")
    /\ LET cm == createMifareForFile
       IN  IF ~initialized
           THEN /\ Return(Result(FALSE, -1))
                /\ Transport(<< >>, rf_weak)
                /\ UNCHANGED <<mifare_handler, dump, uid, dump_valid, mfc_file>>
           ELSE /\ mifare_handler' = cm.handler
                /\ Transport(cm.calls, rf_weak)
                /\ IF ~cm.ok
                      \/ ~current_tag.valid
                      \/ current_tag.protocol # "PROTOCOL_MIFARE_CLASSIC"
                   THEN /\ Return(Result(FALSE, -1))
                        /\ UNCHANGED <<dump, uid, dump_valid, mfc_file>>
                   ELSE /\ dump' = [b \in AllBlocks |->
                                      IF b < TAGINFO_MIFARE_BLOCKS
                                      THEN current_tag.dump[b] ELSE dump[b]]
                        /\ uid' = MemCpy(uid, current_tag.uid, current_tag.uid_length)
                        /\ dump_valid' = TRUE
                        /\ mfc_file' = writeFileFormat(dump', uid')
                        /\ Return(Result(TRUE, 0))
    /\ UNCHANGED <<card, glitches, keys, uid_length, sak, atqa, card_type,
                   total_blocks, blocks_read, sector_auth_success, sector_keys,
                   initialized, current_tag, current_protocol, cascLocals, hintVars,
                   secres, reqVars, held, srixVars>>
    /\ UNCHANGED sideVars

----------------------------------------------------------------------------
(* loadSRIX, seen from the coordinator: the SRIX engine's load succeeded   *)
(* or not; clearCurrentTag                                                 *)

loadSRIX ==
    /\ OpStart("load_srix")
    /\ \E loaded \in BOOLEAN :
         IF initialized /\ loaded
         THEN /\ current_tag' = TagInfo(TRUE, "PROTOCOL_SRIX", "SRIX4K",
                                        ZeroBytes(MIFARE_UID_MAX_SIZE), 8, ZeroTagDump, 0)
              /\ current_protocol' = "PROTOCOL_SRIX"
              /\ Return(Result(TRUE, 0))
         ELSE /\ Return(Result(FALSE, -1))
              /\ UNCHANGED <<current_tag, current_protocol>>
    /\ Transport(<< >>, rf_weak)
    /\ UNCHANGED <<card, glitches, keys, engVars, initialized, mifare_handler,
                   cascLocals, hintVars, secres, reqVars>>
    /\ UNCHANGED <<fileVars, srixVars>>

\* loadSRIX() called by the serial console
LoadSRIX ==
    /\ loadSRIX
    /\ UNCHANGED sideVars

ClearCurrentTag ==
    /\ OpStart("clear")
    /\ current_tag' = ZeroTag
    /\ current_protocol' = "PROTOCOL_UNKNOWN"
    /\ Transport(<< >>, rf_weak)
    /\ UNCHANGED <<card, glitches, keys, engVars, initialized, mifare_handler, pc,
                   cascLocals, hintVars, secres, reqVars, result>>
    /\ UNCHANGED <<fileVars, srixVars>>
    /\ UNCHANGED sideVars

----------------------------------------------------------------------------
(* The card in the field changes between two operations *)

PresentCard ==
    /\ OpStart("present")
    /\ \E c \in (Cards \cup {NoCard}) \ {card} : card' = c
    /\ halted' = FALSE
    /\ authSector' = -1
    /\ hw' = << >>
    /\ UNCHANGED <<pn532ok, rf_weak, glitches, keys, engVars, mgrVars, pc,
                   cascLocals, hintVars, secres, reqVars, result, pendingFail>>
    /\ UNCHANGED <<fileVars, srixVars>>
    /\ UNCHANGED sideVars

----------------------------------------------------------------------------
(* SRIX engine: the dump file format                                       *)

\* variant: the data lines numbered from 01
save_file_headless_FromOne(u, d) ==
    [uid |-> HexOfBytes(u, SRIX_UID_SIZE),
     lines |-> [i \in 1 .. SRIX_BLOCK_COUNT |->
                  [idx |-> HexOfByte(i),
                   data |-> HexOfBytes(d[i - 1], SRIX_BLOCK_SIZE)]]]

\* save_file_headless(): the UID line and the 128 data lines
save_file_headless(u, d) ==
    [uid |-> HexOfBytes(u, SRIX_UID_SIZE),
     lines |-> [i \in 1 .. SRIX_BLOCK_COUNT |->
                  [idx |-> HexOfByte(i - 1),
                   data |-> HexOfBytes(d[i - 1], SRIX_BLOCK_SIZE)]]]

\* the "UID:" line read into _uid, which memset has cleared
ParseSrixUid(uid_str) ==
    [i \in 1 .. SRIX_UID_SIZE |->
       IF (i - 1) * HEX_CHARS_PER_BYTE < Len(uid_str) THEN ByteOfHex(uid_str, i - 1) ELSE 0]

\* a data line is stored when its index, cut to a byte, is a block of the
\* tag and its data has the 8 digits of a block
BlockNumOf(line) == strtoul(line.idx) % 256

Stored(line) ==
    /\ BlockNumOf(line) < SRIX_BLOCK_COUNT
    /\ Len(line.data) >= SRIX_BLOCK_SIZE * HEX_CHARS_PER_BYTE

\* load_file_headless() of an existing file: the buffers it leaves and
\* its return value.  The lines are stored in file order into the buffer
\* memset has cleared, so a block holds the data of the last line that
\* names it; blocks_loaded counts the lines stored
load_file_headless(f) ==
    LET nums == [i \in 1 .. Len(f.lines) |->
                   IF Stored(f.lines[i]) THEN BlockNumOf(f.lines[i]) ELSE -1]
        blocks_loaded == Cardinality({i \in DOMAIN nums : nums[i] >= 0})
        LastLine(b) == LET S == {i \in DOMAIN nums : nums[i] = b}
                       IN  IF S = {} THEN 0 ELSE CHOOSE i \in S : \A k \in S : k <= i
    IN  [uid |-> ParseSrixUid(f.uid),
         dump |-> [b \in SrixBlocks |->
                     IF LastLine(b) = 0 THEN SrixZeroBlock
                     ELSE [k \in 1 .. SRIX_BLOCK_SIZE |->
                             ByteOfHex(f.lines[LastLine(b)].data, k - 1)]],
         code |-> IF blocks_loaded < SRIX_BLOCK_COUNT
                  THEN SRIX_ERROR_INCOMPLETE_DUMP ELSE SUCCESS]

RECURSIVE Flatten(_, _, _)
\* the strings f[lo], ..., f[hi] one after the other
Flatten(f, lo, hi) ==
    IF lo > hi THEN << >>
    ELSE IF lo = hi THEN f[lo]
    ELSE Flatten(f, lo, (lo + hi) \div 2) \o Flatten(f, ((lo + hi) \div 2) + 1, hi)

\* read_tag_headless(): the "data" string, two digits per byte of the dump
DumpHex(d) ==
    Flatten([b \in SrixBlocks |-> HexOfBytes(d[b], SRIX_BLOCK_SIZE)],
            0, SRIX_BLOCK_COUNT - 1)

\* hexToDump() into the 512 bytes of a TagInfo
hexToDump(hex) ==
    [b \in SrixBlocks |->
       [k \in 1 .. SRIX_BLOCK_SIZE |->
          IF ((b * SRIX_BLOCK_SIZE) + k - 1) * 2 < Len(hex)
          THEN ByteOfHex(hex, (b * SRIX_BLOCK_SIZE) + k - 1) ELSE 0]]

----------------------------------------------------------------------------
(* SRIX engine: the transport calls of the write paths                     *)

Ev(c, b, ok) == [c |-> c, b |-> b, ok |-> ok]

\* SRIX_initiate_select() finds a tag
Selectable == pn532ok /\ tag.present

\* SRIX_write_block on the tag's memory: a worn block keeps its content
TagWrite(mem, b, data) == IF b \in tag.worn THEN mem ELSE [mem EXCEPT ![b] = data]

\* variant: the loss of the tag reported as a timeout
TagLostResult_AsTimeout(blocks) == SRIX_ERROR_TIMEOUT

\* what write_tag_headless returns when the tag is not found again after
\* the write of that many blocks
TagLostResult(blocks) == blocks

\* variant: the next block is written without looking for the tag
AfterBlockWritten_NoRedetect(found) == <<Ev("delay", -1, TRUE)>>

\* the calls that follow an acknowledged write of block b
AfterBlockWritten(found) == <<Ev("delay", -1, TRUE), Ev("select", -1, found)>>

\* write_tag_headless(): the loop.  failAt: the block whose write the tag
\* does not acknowledge; lostAt: the block after which the tag is not found
\* again; -1 for none.  The last turn the loop enters:
LastIteration(failAt, lostAt) ==
    IF failAt >= 0 THEN failAt
    ELSE IF lostAt >= 0 THEN lostAt ELSE SRIX_BLOCK_COUNT - 1

\* the calls of the turn of block b
IterationCalls(b, failAt, lostAt) ==
    IF b = failAt THEN <<Ev("write", b, FALSE)>>
    ELSE <<Ev("write", b, TRUE)>> \o AfterBlockWritten(b # lostAt)

\* the loop writing the dump d: return value, calls made, the tag's memory
write_tag_loop(d, mem, failAt, lostAt) ==
    LET last == LastIteration(failAt, lostAt)
        written == IF failAt >= 0 THEN failAt ELSE last + 1
    IN  [code |-> IF failAt >= 0 THEN SRIX_ERROR_WRITE_FAILED
                  ELSE IF lostAt >= 0 THEN TagLostResult(written) ELSE SUCCESS,
         log |-> Flatten([b \in 0 .. last |-> IterationCalls(b, failAt, lostAt)], 0, last),
         mem |-> [x \in SrixBlocks |->
                    IF x < written /\ x \notin tag.worn THEN d[x] ELSE mem[x]]]

\* the failures the field may produce during a full write: <<failAt, lostAt>>
WriteFaults ==
    {<<-1, -1>>} \cup
    (IF glitches < MaxGlitches
     THEN {<<b, -1>> : b \in GlitchBlocks} \cup {<<-1, b>> : b \in GlitchBlocks}
     ELSE {})

\* write_single_block_headless().  fault: the call that fails, "none",
\* "write", "select" (the select before the read-back) or "read"
write_single_block_headless(block_num, data, fault) ==
    IF block_num > SRIX_MAX_BLOCK_NUM
    THEN [code |-> SRIX_ERROR_INVALID_BLOCK, mem |-> tag.mem, log |-> << >>]
    ELSE IF ~Selectable
    THEN [code |-> SRIX_ERROR_TIMEOUT, mem |-> tag.mem,
          log |-> <<Ev("select", -1, FALSE)>>]
    ELSE IF fault = "write"
    THEN [code |-> SRIX_ERROR_WRITE_FAILED, mem |-> tag.mem,
          log |-> <<Ev("select", -1, TRUE), Ev("write", block_num, FALSE)>>]
    ELSE LET mem2 == TagWrite(tag.mem, block_num, data)
             done == <<Ev("select", -1, TRUE), Ev("write", block_num, TRUE),
                       Ev("delay", -1, TRUE)>>
         IN  IF fault = "select"
             THEN [code |-> SUCCESS_VERIFY_SKIP, mem |-> mem2,
                   log |-> Append(done, Ev("select", -1, FALSE))]
             ELSE IF fault = "read"
             THEN [code |-> SUCCESS_VERIFY_SKIP, mem |-> mem2,
                   log |-> done \o <<Ev("select", -1, TRUE), Ev("read", block_num, FALSE)>>]
             ELSE [code |-> IF mem2[block_num] = data THEN SUCCESS ELSE SUCCESS_VERIFY_FAIL,
                   mem |-> mem2,
                   log |-> done \o <<Ev("select", -1, TRUE), Ev("read", block_num, TRUE)>>]

\* the failures the field may produce during a single-block write
BlockFaults ==
    {"none"} \cup (IF glitches < MaxGlitches THEN {"write", "select", "read"} ELSE {})

----------------------------------------------------------------------------
(* load(filename, protocol) of the coordinator, called by the web API.  A  *)
(* file name is the sequence of its characters.                            *)

\* String::endsWith
endsWith(str, suffix) ==
    /\ Len(str) >= Len(suffix)
    /\ SubSeq(str, Len(str) - Len(suffix) + 1, Len(str)) = suffix

NameMfc == <<"c", ".", "m", "f", "c">>
NameSrix == <<"t", ".", "s", "r", "i", "x">>
NameBackup == <<"c", ".", "m", "f", "c", ".", "b", "a", "k">>
NameNoDot == <<"s", "r", "i", "x">>
LoadArgs == {<<NameMfc, "PROTOCOL_UNKNOWN">>, <<NameSrix, "PROTOCOL_UNKNOWN">>,
             <<NameBackup, "PROTOCOL_UNKNOWN">>, <<NameNoDot, "PROTOCOL_UNKNOWN">>,
             <<NameBackup, "PROTOCOL_NTAG">>, <<NameBackup, "PROTOCOL_DESFIRE">>}

\* faulty variant: a name of neither extension is taken for a Mifare dump
detectProtocol_GuessesMifare(filename, protocol) ==
    IF protocol # "PROTOCOL_UNKNOWN" THEN protocol
    ELSE IF endsWith(filename, <<".", "s", "r", "i", "x">>) THEN "PROTOCOL_SRIX"
    ELSE "PROTOCOL_MIFARE_CLASSIC"

\* the protocol load() dispatches on; PROTOCOL_UNKNOWN: none detected
detectProtocol(filename, protocol) ==
    IF protocol # "PROTOCOL_UNKNOWN" THEN protocol
    ELSE IF endsWith(filename, <<".", "s", "r", "i", "x">>) THEN "PROTOCOL_SRIX"
    ELSE IF endsWith(filename, <<".", "m", "f", "c">>) THEN "PROTOCOL_MIFARE_CLASSIC"
    ELSE "PROTOCOL_UNKNOWN"

Load ==
    \E arg \in LoadArgs :
    \E p \in {detectProtocol(arg[1], arg[2])} :
      /\ load_arg' = [filename |-> arg[1], protocol |-> arg[2], at |-> nops + 1]
      /\ IF initialized /\ p = "PROTOCOL_SRIX" THEN loadSRIX
         ELSE IF initialized /\ p = "PROTOCOL_MIFARE_CLASSIC" THEN loadMifare
         ELSE /\ OpStart("load")
              /\ Return(Result(FALSE, CASE ~initialized \/ p = "PROTOCOL_UNKNOWN" -> -1
                                        [] p = "PROTOCOL_NTAG" -> -99
                                        [] OTHER -> -3))
              /\ Transport(<< >>, rf_weak)
              /\ UNCHANGED <<card, glitches, keys, engVars, initialized, mifare_handler,
                             current_tag, current_protocol, cascLocals, hintVars,
                             secres, reqVars>>
              /\ UNCHANGED <<fileVars, srixVars>>
      /\ UNCHANGED <<webVars, keyVars, partVars>>

----------------------------------------------------------------------------
(* Coordinator: the SRIX operations                                        *)

srixEng == <<srix_uid, srix_dump, dump_valid_from_read, dump_valid_from_load>>
mifareSide == <<card, halted, authSector, rf_weak, keys, engVars, mifare_handler,
                cascLocals, hintVars, secres, hw, pendingFail, fileVars>>
opObs == <<op, nops, cascObs, wlog, block0, readObs>>

SrixReturn(r, msg) ==
    /\ Return(r)
    /\ message' = msg

\* memcpy of a TagInfo into the engine and setDumpValidFromLoad()
SrixEngineFrom(info) ==
    /\ srix_dump' = info.dump
    /\ srix_uid' = [i \in 1 .. SRIX_UID_SIZE |-> info.uid[i]]
    /\ dump_valid_from_load' = TRUE
    /\ dump_valid_from_read' = FALSE
    /\ srix_image' = info.dump

SrixTagInfo(u, ulen, d) == TagInfo(TRUE, "PROTOCOL_SRIX", "SRIX4K", u, ulen, d, 0)

\* readSRIX(), up to the engine's read loop
ReadSRIX ==
    /\ OpStart("read_srix")
    /\ slog' = << >>
    /\ IF ~initialized
       THEN /\ SrixReturn(Result(FALSE, -1), "NFCManager not initialized (call begin() first)")
            /\ UNCHANGED srix_handler
       ELSE /\ srix_handler' = "ready"
            /\ pc' = "srix_read"
            /\ UNCHANGED <<result, message>>
    /\ UNCHANGED <<mifareSide, pn532ok, glitches, initialized, current_tag,
                   current_protocol, reqVars, tag, srix_files, srixEng, file_arg,
                   srix_image>>
    /\ UNCHANGED sideVars

\* read_tag_headless(): one turn of the loop, or its timeout, and the rest
\* of readSRIX() once the engine has returned
ReadSRIXPass ==
    /\ pc = "srix_read"
    /\ \/ \* the timeout expires: no tag answers, or a pass has failed
          /\ ~Selectable \/ slog # << >>
          /\ SrixReturn(Result(FALSE, -1), "Timeout: No SRIX tag found")
          /\ KeepCurrentTag
          /\ UNCHANGED <<srixEng, glitches, slog, srix_image>>
       \/ \* block b does not answer: the pass stops and the loop goes on
          /\ Selectable
          /\ glitches < MaxGlitches
          /\ \E b \in GlitchBlocks :
               /\ srix_dump' = [x \in SrixBlocks |->
                                  IF x < b THEN tag.mem[x] ELSE srix_dump[x]]
               /\ slog' = Append(slog, Ev("read", b, FALSE))
          /\ srix_uid' = tag.uid
          /\ glitches' = glitches + 1
          /\ UNCHANGED <<pc, result, message, dump_valid_from_read,
                         dump_valid_from_load, current_tag, current_protocol,
                         srix_image>>
       \/ \* all 128 blocks answer
          /\ Selectable
          /\ srix_uid' = tag.uid
          /\ srix_dump' = tag.mem
          /\ dump_valid_from_read' = TRUE
          /\ dump_valid_from_load' = FALSE
          /\ srix_image' = tag.mem
          /\ slog' = Append(slog, Ev("read", SRIX_BLOCK_COUNT, TRUE))
          /\ \E u \in {stringToUid(HexOfBytes(tag.uid, SRIX_UID_SIZE))},
                d \in {hexToDump(DumpHex(tag.mem))} :
               current_tag' = SrixTagInfo(u.uid, u.length, d)
          /\ current_protocol' = "PROTOCOL_SRIX"
          /\ SrixReturn(Result(TRUE, 0), "SRIX tag read successfully")
          /\ UNCHANGED glitches
    /\ UNCHANGED <<mifareSide, opObs, pn532ok, initialized, reqVars, tag, srix_files,
                   srix_handler, file_arg>>
    /\ UNCHANGED sideVars

\* writeSRIX(): the Result made of write_tag_headless()'s return value
writeSRIXResult(write_result) ==
    IF write_result = 0
    THEN [res |-> Result(TRUE, 0), msg |-> "SRIX tag written and verified"]
    ELSE IF write_result > 0
    THEN [res |-> Result(FALSE, write_result), msg |-> "Tag lost at block: "]
    ELSE [res |-> Result(FALSE, write_result),
          msg |-> CASE write_result = -1 -> "Timeout waiting for tag"
                    [] write_result = -2 -> "No data loaded"
                    [] write_result = -5 -> "Write failed"
                    [] write_result = -6 -> "NFC hardware error"
                    [] OTHER -> "Unknown error"]

\* writeSRIX(_current_tag, timeout) with write_tag_headless()
WriteSRIX ==
    /\ OpStart("write_srix")
    /\ IF ~initialized
       THEN /\ SrixReturn(Result(FALSE, -1), "NFCManager not initialized (call begin() first)")
            /\ slog' = << >>
            /\ UNCHANGED <<srix_handler, srixEng, srix_image, tag, glitches>>
       ELSE /\ srix_handler' = "ready"
            /\ IF ~current_tag.valid \/ current_tag.protocol # "PROTOCOL_SRIX"
               THEN /\ SrixReturn(Result(FALSE, -2), "Invalid SRIX data")
                    /\ slog' = << >>
                    /\ UNCHANGED <<srixEng, srix_image, tag, glitches>>
               ELSE /\ SrixEngineFrom(current_tag)
                    /\ IF ~Selectable
                       THEN /\ slog' = <<Ev("select", -1, FALSE)>>
                            /\ \E w \in {writeSRIXResult(SRIX_ERROR_TIMEOUT)} :
                                 SrixReturn(w.res, w.msg)
                            /\ UNCHANGED <<tag, glitches>>
                       ELSE \E ft \in WriteFaults :
                            \E r \in {write_tag_loop(current_tag.dump, tag.mem,
                                                     ft[1], ft[2])} :
                            \E w \in {writeSRIXResult(r.code)} :
                              /\ slog' = <<Ev("select", -1, TRUE)>> \o r.log
                              /\ tag' = [tag EXCEPT !.mem = r.mem]
                              /\ glitches' = IF ft = <<-1, -1>> THEN glitches
                                             ELSE glitches + 1
                              /\ SrixReturn(w.res, w.msg)
    /\ UNCHANGED <<mifareSide, pn532ok, initialized, current_tag, current_protocol,
                   reqVars, srix_files, file_arg>>
    /\ UNCHANGED sideVars

\* writeSRIXBlock(): the Result, and what the engine did to the tag
writeSRIXBlock(block_num, data, fault) ==
    IF ~initialized
    THEN [res |-> Result(FALSE, -1), msg |-> "NFCManager not initialized",
          mem |-> tag.mem, log |-> << >>]
    ELSE IF block_num > 127
    THEN [res |-> Result(FALSE, -4), msg |-> "Invalid block number (max 127)",
          mem |-> tag.mem, log |-> << >>]
    ELSE LET w == write_single_block_headless(block_num, data, fault)
         IN  IF w.code = 0
             THEN [res |-> Result(TRUE, 0), msg |-> "Block written and verified",
                   mem |-> w.mem, log |-> w.log]
             ELSE IF w.code > 0
             THEN [res |-> Result(FALSE, w.code), msg |-> "Tag lost",
                   mem |-> w.mem, log |-> w.log]
             ELSE [res |-> Result(FALSE, w.code), msg |-> "Write failed",
                   mem |-> w.mem, log |-> w.log]

\* a fault is drawn only where a transport call can fail
FaultUsed(block_num, fault) ==
    fault # "none" => (initialized /\ block_num <= 127 /\ Selectable)

\* writeSRIXBlock(block_num, data) called on its own
WriteSRIXBlock ==
    /\ OpStart("write_block")
    /\ \E block_num \in SrixBlockArgs, data \in SrixDataArgs, fault \in BlockFaults :
         /\ FaultUsed(block_num, fault)
         /\ \E r \in {writeSRIXBlock(block_num, data, fault)} :
              /\ SrixReturn(r.res, r.msg)
              /\ tag' = [tag EXCEPT !.mem = r.mem]
              /\ slog' = r.log
         /\ glitches' = IF fault = "none" THEN glitches ELSE glitches + 1
         /\ req' = <<block_num>>
    /\ srix_handler' = IF initialized THEN "ready" ELSE srix_handler
    /\ UNCHANGED <<mifareSide, pn532ok, initialized, current_tag, current_protocol,
                   reqi, blocks_written, srix_files, srixEng, file_arg, srix_image>>
    /\ UNCHANGED sideVars

\* writeSRIXBlocksSelective(), up to its loop
WriteSRIXBlocksSelective ==
    /\ OpStart("write_srix_selective")
    /\ slog' = << >>
    /\ \E block_numbers \in SrixBlockLists :
         /\ req' = block_numbers
         /\ IF block_numbers = << >>
            THEN SrixReturn(Result(FALSE, -3), "No blocks specified")
            ELSE IF ~current_tag.valid
            THEN SrixReturn(Result(FALSE, -2), "No loaded data to write from")
            ELSE /\ pc' = "srix_sel"
                 /\ UNCHANGED <<result, message>>
    /\ reqi' = 1
    /\ blocks_written' = 0
    /\ UNCHANGED <<mifareSide, pn532ok, glitches, initialized, current_tag,
                   current_protocol, tag, srix_files, srixEng, srix_handler, file_arg,
                   srix_image>>
    /\ UNCHANGED sideVars

\* one turn of the loop of writeSRIXBlocksSelective(), or its end
\* the 16 bytes of a Mifare block given by its fields: 6 bytes of key A, 4
\* access bytes, 6 bytes of key B
FieldBytes(blk) ==
    [i \in 1 .. MIFARE_BLOCK_SIZE |->
        IF i <= 6 THEN blk[1] ELSE IF i <= 10 THEN blk[2] ELSE blk[3]]

\* _current_tag.data.srix.dump + (block_num * 4): the SRIX dump shares its
\* bytes with the Mifare dump of the record (union data)
srixBlockData(info, block_num) ==
    IF info.protocol = "PROTOCOL_MIFARE_CLASSIC"
    THEN SubSeq(FieldBytes(info.dump[block_num \div 4]), (block_num % 4) * 4 + 1,
                (block_num % 4) * 4 + 4)
    ELSE info.dump[block_num]

SrixSelectiveNext ==
    /\ pc = "srix_sel"
    /\ IF reqi > Len(req)
       THEN /\ SrixReturn(Result(TRUE, 0), "Successfully wrote blocks")
            /\ UNCHANGED <<reqi, blocks_written, tag, slog, glitches, srix_handler>>
       ELSE IF req[reqi] > 127
       THEN /\ reqi' = reqi + 1
            /\ UNCHANGED <<pc, result, message, blocks_written, tag, slog, glitches,
                           srix_handler>>
       ELSE \E fault \in BlockFaults :
              /\ FaultUsed(req[reqi], fault)
              /\ glitches' = IF fault = "none" THEN glitches ELSE glitches + 1
              /\ srix_handler' = IF initialized THEN "ready" ELSE srix_handler
              /\ \E r \in {writeSRIXBlock(req[reqi], srixBlockData(current_tag, req[reqi]), fault)} :
                   /\ tag' = [tag EXCEPT !.mem = r.mem]
                   /\ slog' = slog \o r.log
                   /\ IF r.res.success \/ (r.res.code >= 0 /\ r.res.code <= 2)
                      THEN /\ blocks_written' = blocks_written + 1
                           /\ reqi' = reqi + 1
                           /\ UNCHANGED <<pc, result, message>>
                      ELSE /\ SrixReturn(Result(FALSE, r.res.code), "Failed at block")
                           /\ UNCHANGED <<reqi, blocks_written>>
    /\ UNCHANGED <<mifareSide, opObs, pn532ok, initialized, current_tag,
                   current_protocol, req, srix_files, srixEng, file_arg, srix_image>>
    /\ UNCHANGED sideVars

\* save(name) of an SRIX record: saveSRIX(_current_tag, name).  The file is
\* new in the folder, under the name or under the name with a suffix
SaveSRIX ==
    /\ OpStart("save_srix")
    /\ slog' = << >>
    /\ IF ~initialized
       THEN /\ SrixReturn(Result(FALSE, -1), "NFCManager not initialized")
            /\ UNCHANGED <<srix_handler, srixEng, srix_image, srix_files, file_arg>>
       ELSE /\ srix_handler' = "ready"
            /\ IF ~current_tag.valid \/ current_tag.protocol # "PROTOCOL_SRIX"
               THEN /\ SrixReturn(Result(FALSE, -1), "Invalid SRIX data to save")
                    /\ UNCHANGED <<srixEng, srix_image, srix_files, file_arg>>
               ELSE /\ SrixEngineFrom(current_tag)
                    /\ srix_files' = Append(srix_files,
                                            save_file_headless(srix_uid', srix_dump'))
                    /\ file_arg' = Len(srix_files) + 1
                    /\ SrixReturn(Result(TRUE, 0), "Saved to ")
    /\ UNCHANGED <<mifareSide, pn532ok, glitches, initialized, current_tag,
                   current_protocol, reqVars, tag>>
    /\ UNCHANGED sideVars

\* load(name) of an .srix file: loadSRIX(info, name); a name past the
\* folder's files is a file that does not exist
LoadSRIXFile ==
    /\ OpStart("load_srix")
    /\ slog' = << >>
    /\ \E f \in 1 .. (Len(srix_files) + 1) :
         /\ file_arg' = f
         /\ IF ~initialized
            THEN /\ SrixReturn(Result(FALSE, -1), "NFCManager not initialized")
                 /\ KeepCurrentTag
                 /\ UNCHANGED <<srix_handler, srixEng, srix_image>>
            ELSE /\ srix_handler' = "ready"
                 /\ IF f > Len(srix_files)
                    THEN /\ SrixReturn(Result(FALSE, SRIX_ERROR_FILE_NOT_FOUND),
                                       "File not found")
                         /\ KeepCurrentTag
                         /\ UNCHANGED <<srixEng, srix_image>>
                    ELSE \E r \in {load_file_headless(srix_files[f])} :
                           /\ srix_uid' = r.uid
                           /\ srix_dump' = r.dump
                           /\ IF r.code # 0
                              THEN /\ SrixReturn(Result(FALSE, r.code),
                                                 "Incomplete or corrupt file")
                                   /\ KeepCurrentTag
                                   /\ UNCHANGED <<dump_valid_from_read,
                                                  dump_valid_from_load, srix_image>>
                              ELSE /\ dump_valid_from_load' = TRUE
                                   /\ dump_valid_from_read' = FALSE
                                   /\ srix_image' = r.dump
                                   /\ current_tag' =
                                        SrixTagInfo(MemCpy(ZeroBytes(MIFARE_UID_MAX_SIZE),
                                                           r.uid, SRIX_UID_SIZE),
                                                    8, r.dump)
                                   /\ current_protocol' = "PROTOCOL_SRIX"
                                   /\ SrixReturn(Result(TRUE, 0), "File loaded successfully")
    /\ UNCHANGED <<mifareSide, pn532ok, glitches, initialized, reqVars, tag,
                   srix_files>>
    /\ UNCHANGED sideVars

\* listFiles(PROTOCOL_SRIX): the files of the folder are counted
ListFiles ==
    /\ OpStart("list")
    /\ slog' = << >>
    /\ SrixReturn(Result(TRUE, Len(srix_files)), " files found")
    /\ UNCHANGED <<mifareSide, pn532ok, glitches, initialized, current_tag,
                   current_protocol, reqVars, tag, srix_files, srixEng, srix_handler,
                   file_arg, srix_image>>
    /\ UNCHANGED sideVars

\* the tag in the field changes between two operations
PresentTag ==
    /\ OpStart("present")
    /\ \E t \in (SrixTags \cup {NoTag}) \ {tag} : tag' = t
    /\ UNCHANGED <<mifareSide, pn532ok, glitches, initialized, current_tag,
                   current_protocol, pc, result, reqVars, srix_files, srixEng,
                   srix_handler, file_arg, slog, srix_image, message>>
    /\ UNCHANGED sideVars

Next ==
    \/ NFCManagerBegin
    \/ PresentCard
    \/ ReadMifare
    \/ ReadDetect
    \/ ReadSectorAuth
    \/ ReadSectorBlock
    \/ ReadAllBlocksNext
    \/ WriteMifare
    \/ WriteDetect
    \/ WriteVerifyType
    \/ WriteSectorAuth
    \/ WriteSectorBlock
    \/ WriteMifareBlocksSelective
    \/ SelectiveNext
    \/ SingleDetect
    \/ SingleBlockAuth
    \/ SingleBlockWrite
    \/ CloneMifareUID
    \/ CloneDetect
    \/ CloneAuth
    \/ CloneWrite
    \/ LoadMifare
    \/ Load
    \/ SaveMifare
    \/ LoadSRIX
    \/ ClearCurrentTag

Spec == Init /\ [][Next]_vars

\* the SRIX side of the coordinator on its own: no Mifare card is in the field
SrixInit ==
    /\ Constructed
    /\ card = NoCard
    /\ keys = DefaultKeys
    /\ tag \in SrixTags \cup {NoTag}
    /\ antenna = NothingPresented
    /\ keys_file = [exists |-> FALSE, lines |-> << >>, open |-> FALSE]
    /\ addr = [done |-> FALSE]
    /\ read_call = [stage |-> "none"]
    /\ mfc_folder = << >>
    /\ save_call = [n |-> 0]
    /\ write_req = [hpc |-> "none"]

SrixNext ==
    \/ NFCManagerBegin
    \/ PresentTag
    \/ ReadSRIX
    \/ ReadSRIXPass
    \/ WriteSRIX
    \/ WriteSRIXBlock
    \/ WriteSRIXBlocksSelective
    \/ SrixSelectiveNext
    \/ SaveSRIX
    \/ LoadSRIXFile
    \/ LoadMifare
    \/ ListFiles
    \/ ClearCurrentTag

SpecSRIX == SrixInit /\ [][SrixNext]_vars

----------------------------------------------------------------------------
(* The web API and the serial console over the coordinator *)

HTTP_OK == 200
HTTP_BAD_REQUEST == 400
HTTP_INTERNAL_ERROR == 500
DUMP_PREVIEW_BYTES == 64
\* the blank the compare helper puts between two bytes of a payload
Blank == 16

\* what the web and serial steps leave alone of the coordinator and engines
webFrame == <<envVars, keys, engVars, mifare_handler, pc, op, sector, stage, ki,
              cached_key_a, cached_key_b, secres, req, reqi, blocks_written, result,
              obsVars, fileVars, srixVars, load_arg, keyVars, partVars>>

ProtocolOf(engine) ==
    IF engine = "srix" THEN "PROTOCOL_SRIX" ELSE "PROTOCOL_MIFARE_CLASSIC"

getTagDataSize(info) ==
    CASE info.protocol = "PROTOCOL_SRIX" -> SRIX_DUMP_SIZE
      [] info.protocol = "PROTOCOL_MIFARE_CLASSIC" -> MIFARE_1K_DUMP_SIZE
      [] OTHER -> 0

getTagDataPointer(info) ==
    IF info.protocol \in {"PROTOCOL_SRIX", "PROTOCOL_MIFARE_CLASSIC"}
    THEN info.dump ELSE << >>

\* what a TagInfo the worker filled through a freed record may hold instead
Scribbled ==
    TagInfo(TRUE, "PROTOCOL_UNKNOWN", "", ZeroBytes(MIFARE_UID_MAX_SIZE), 0, << >>, 0)

NoCompare == [id |-> 0]

\* readSRIX() / readMifare() past the _initialized check: the tag at the
\* antenna answers the engine of its own protocol
readTag(engine) ==
    IF engine = "mifare" /\ ~pn532ok
    THEN [found |-> FALSE,
          res |-> WebResult(FALSE, "Failed to initialize Mifare handler", -1)]
    ELSE IF pn532ok /\ antenna.valid /\ antenna.protocol = ProtocolOf(engine)
    THEN [found |-> TRUE,
          res |-> WebResult(TRUE, IF engine = "srix" THEN "SRIX tag read successfully"
                                  ELSE "Mifare tag read successfully", 0)]
    ELSE [found |-> FALSE,
          res |-> WebResult(FALSE, IF engine = "srix" THEN "Timeout: No SRIX tag found"
                                   ELSE "Timeout: No Mifare tag found", -1)]

\* writeMifareBlocksSelective() as the worker sees it: the Results it returns
writeSelectiveResults ==
    IF ~current_tag.valid
    THEN {WebResult(FALSE, "No loaded data to write from", -2)}
    ELSE IF ~pn532ok
    THEN {WebResult(FALSE, "Failed to initialize Mifare handler", -1)}
    ELSE IF antenna.valid /\ antenna.protocol = "PROTOCOL_MIFARE_CLASSIC"
    THEN {WebResult(TRUE, "Successfully wrote blocks", 0),
          WebResult(FALSE, "Failed at block", ERROR_AUTH_FAILED)}
    ELSE {WebResult(FALSE, "Failed at block", ERROR_NO_TAG)}

\* a store through the record pointer of worker i: into the record while it
\* lives, into whatever the heap holds at that place once it is freed
Store(i, fields) ==
    IF taskData[i].heap = "live"
    THEN /\ taskData' = [taskData EXCEPT ![i] = fields @@ taskData[i]]
         /\ wild_writes' = wild_writes
    ELSE /\ taskData' = taskData
         /\ wild_writes' = wild_writes \cup {i}

\* a coordinator operation of somebody else than compare i changes the tag
OtherThan(i) == IF before_compare.id = i THEN before_compare ELSE NoCompare

\* the task function up to the hardware: data->running = true, then the call
TaskStart ==
    \E i \in Requests :
      /\ task[i].pc = "created"
      /\ IF initialized \/ task[i].fn = "nfcWriteSelectiveTaskMifare"
         THEN /\ Store(i, [running |-> TRUE])
              /\ task' = [task EXCEPT ![i].pc = "hw"]
         ELSE /\ Store(i, [running |-> TRUE,
                           result |-> WebResult(FALSE,
                               "NFCManager not initialized (call begin() first)", -1)])
              /\ task' = [task EXCEPT ![i].pc = "ret"]
      /\ UNCHANGED <<webFrame, nops, initialized, current_tag, current_protocol, antenna,
                     handler, serial, responseDoc, before_compare, compared>>

\* the coordinator operation of the worker ends: data->tagInfo is filled
\* through the reference, _current_tag is copied from it, data->result stored
TaskOperation ==
    \E i \in Requests :
      /\ task[i].pc = "hw"
      /\ IF task[i].fn = "nfcWriteSelectiveTaskMifare"
         THEN /\ \E r \in writeSelectiveResults : Store(i, [result |-> r])
              /\ UNCHANGED <<current_tag, current_protocol, before_compare>>
         ELSE \E r \in {readTag(EngineOf(task[i].fn))} :
              IF r.found
              THEN /\ Store(i, [result |-> r.res, tagInfo |-> antenna])
                   /\ \E info \in (IF taskData[i].heap = "live" THEN {antenna}
                                   ELSE {antenna, Scribbled}) :
                        current_tag' = info
                   /\ current_protocol' = ProtocolOf(EngineOf(task[i].fn))
                   /\ before_compare' = OtherThan(i)
              ELSE /\ Store(i, [result |-> r.res])
                   /\ UNCHANGED <<current_tag, current_protocol, before_compare>>
      /\ task' = [task EXCEPT ![i].pc = "ret"]
      /\ UNCHANGED <<webFrame, nops, initialized, antenna, handler, serial, responseDoc,
                     compared>>

\* data->running = false; data->completed = true; vTaskDelete(NULL)
TaskFinish ==
    \E i \in Requests :
      /\ task[i].pc = "ret"
      /\ Store(i, [running |-> FALSE, completed |-> TRUE])
      /\ task' = [task EXCEPT ![i].pc = "exited"]
      /\ UNCHANGED <<webFrame, nops, initialized, current_tag, current_protocol, antenna,
                     handler, serial, responseDoc, before_compare, compared>>

ErrorDoc(status, m) == [status |-> status, success |-> FALSE, message |-> m]

\* the first DUMP_PREVIEW_BYTES bytes, two digits each
DumpPreview(d, size) ==
    Flatten([i \in 1 .. size |-> HexOfByte(d[i])], 1,
            IF size < DUMP_PREVIEW_BYTES THEN size ELSE DUMP_PREVIEW_BYTES)

\* the bytes of one block, two digits each, a blank between two bytes
SpacedHex(d, block, BLOCK_SIZE) ==
    Flatten([b \in 0 .. (BLOCK_SIZE - 1) |->
                HexOfByte(d[block * BLOCK_SIZE + b + 1])
                \o (IF b < BLOCK_SIZE - 1 THEN <<Blank>> ELSE << >>)],
            0, BLOCK_SIZE - 1)

\* faulty variant: a block counts as different when its first byte differs
isDifferent_FirstByte(loadedData, physicalData, block, BLOCK_SIZE) ==
    loadedData[block * BLOCK_SIZE + 1] # physicalData[block * BLOCK_SIZE + 1]

isDifferent(loadedData, physicalData, block, BLOCK_SIZE) ==
    \E b \in 0 .. (BLOCK_SIZE - 1) :
      loadedData[block * BLOCK_SIZE + b + 1] # physicalData[block * BLOCK_SIZE + b + 1]

is_sector_trailer(block) ==
    LET sec == IF block < 128 THEN block \div 4 ELSE 32 + ((block - 128) \div 16)
        first_block == IF sec < 32 THEN sec * 4 ELSE 128 + (sec - 32) * 16
        block_count == IF sec < 32 THEN 4 ELSE 16
    IN  block = first_block + block_count - 1

compareTagData(loadedData, loadedSize, physicalData, physicalSize, doc) ==
    IF loadedSize # physicalSize
    THEN [success |-> FALSE,
          message |-> "Size mismatch between loaded dump and physical tag",
          identical |-> FALSE, size_mismatch |-> TRUE,
          loaded_size |-> loadedSize, physical_size |-> physicalSize] @@ doc
    ELSE IF loadedSize \notin {512, 1024}
    THEN [success |-> FALSE, message |-> "Unsupported dump size",
          identical |-> FALSE] @@ doc
    ELSE LET BLOCK_SIZE == IF loadedSize = 512 THEN 4 ELSE 16
             is_mifare == loadedSize = 1024
             numBlocks == loadedSize \div BLOCK_SIZE
             diff(block) ==
                 (IF is_mifare /\ block = 0
                  THEN [warning |-> "Block 0 (UID) - will be skipped"]
                  ELSE IF is_mifare /\ is_sector_trailer(block)
                  THEN [warning |-> "Sector trailer (keys) - will be skipped"]
                  ELSE << >>)
                 @@ [block |-> block,
                     loaded |-> SpacedHex(loadedData, block, BLOCK_SIZE),
                     physical |-> SpacedHex(physicalData, block, BLOCK_SIZE)]
             differences ==
                 Flatten([block \in 0 .. (numBlocks - 1) |->
                             IF isDifferent(loadedData, physicalData, block, BLOCK_SIZE)
                             THEN <<diff(block)>> ELSE << >>],
                         0, numBlocks - 1)
         IN  [differences |-> differences,
              identical |-> (Len(differences) = 0),
              total_differences |-> Len(differences),
              total_blocks |-> numBlocks, block_size |-> BLOCK_SIZE] @@ doc

\* the JSON document of a read handler
ReadDoc(rec, mifare) ==
    IF ~rec.completed
    THEN [status |-> HTTP_OK, success |-> FALSE,
          message |-> "Request timeout (task still running)"]
    ELSE IF ~rec.result.success
    THEN [status |-> HTTP_OK, success |-> FALSE, message |-> rec.result.message]
    ELSE (IF mifare THEN [sectors |-> rec.tagInfo.sectors] ELSE << >>)
         @@ [status |-> HTTP_OK, success |-> TRUE, message |-> rec.result.message,
             protocol |-> rec.tagInfo.protocol_name,
             uid |-> uidToString(rec.tagInfo.uid, rec.tagInfo.uid_length),
             size |-> getTagDataSize(rec.tagInfo),
             dump |-> DumpPreview(getTagDataPointer(rec.tagInfo),
                                  getTagDataSize(rec.tagInfo))]

\* the JSON document of a compare handler
CompareDoc(rec, loadedTag) ==
    IF rec.completed /\ rec.result.success
    THEN compareTagData(getTagDataPointer(loadedTag), getTagDataSize(loadedTag),
                        getTagDataPointer(rec.tagInfo), getTagDataSize(rec.tagInfo),
                        [status |-> HTTP_OK, success |-> TRUE,
                         message |-> "Tag read successfully",
                         physical_uid |-> uidToString(rec.tagInfo.uid,
                                                      rec.tagInfo.uid_length),
                         physical_protocol |-> rec.tagInfo.protocol_name,
                         loaded_uid |-> uidToString(loadedTag.uid,
                                                    loadedTag.uid_length)])
    ELSE IF rec.completed
    THEN [status |-> HTTP_OK, success |-> FALSE, message |-> rec.result.message]
    ELSE [status |-> HTTP_OK, success |-> FALSE,
          message |-> "Read timeout - could not read tag"]

\* the JSON document of the selective write handler
WriteSelectiveDoc(rec) ==
    IF rec.completed
    THEN [status |-> HTTP_OK, success |-> rec.result.success,
          message |-> rec.result.message, code |-> rec.result.code]
    ELSE [status |-> HTTP_OK, success |-> FALSE,
          message |-> "Write timeout - operation did not complete", code |-> -99]

\* a request handler up to its polling loop: the checks, new ...TaskData(),
\* xTaskCreatePinnedToCore()
HandleRequest ==
    \E kind \in RequestKinds :
    \E i \in Requests :
      /\ handler.pc = "idle"
      /\ nops < MaxOps
      /\ taskData[i].heap = "none"
      /\ \A j \in Requests : j < i => taskData[j].heap # "none"
      /\ IF kind # "srix_read" /\ kind # "mifare_read" /\ ~current_tag.valid
         THEN /\ responseDoc' = ErrorDoc(HTTP_BAD_REQUEST,
                                         IF kind \in CompareKinds
                                         THEN "No loaded dump to compare"
                                         ELSE "No data loaded")
              /\ UNCHANGED <<taskData, task, handler, before_compare>>
         ELSE \E created \in BOOLEAN :
              IF created
              THEN /\ taskData' = [taskData EXCEPT ![i] = NewRecord]
                   /\ task' = [task EXCEPT ![i] = [pc |-> "created",
                                                   fn |-> TaskFunction(kind)]]
                   /\ handler' = [pc |-> "poll", id |-> i, kind |-> kind,
                                  loadedTag |-> IF kind \in CompareKinds
                                                THEN current_tag ELSE ZeroTag]
                   /\ before_compare' =
                        IF kind \in CompareKinds /\ serial.pc = "idle"
                        THEN [id |-> i, tag |-> current_tag,
                              protocol |-> current_protocol]
                        ELSE NoCompare
                   /\ responseDoc' = EmptyDoc
              ELSE /\ taskData' = [taskData EXCEPT ![i].heap = "freed"]
                   /\ responseDoc' = ErrorDoc(HTTP_INTERNAL_ERROR,
                                              "Failed to create task")
                   /\ UNCHANGED <<task, handler, before_compare>>
      /\ nops' = nops + 1
      /\ compared' = << >>
      /\ UNCHANGED <<webFrame, initialized, current_tag, current_protocol, antenna,
                     serial, wild_writes>>

\* the first loop ends: the worker completed, or the wait bound expired
HandlerPoll ==
    /\ handler.pc = "poll"
    /\ \E expired \in BOOLEAN : taskData[handler.id].completed \/ expired
    /\ handler' = [handler EXCEPT !.pc = "drain"]
    /\ UNCHANGED <<webFrame, nops, initialized, current_tag, current_protocol, antenna,
                   taskData, task, serial, responseDoc, before_compare, compared,
                   wild_writes>>

\* the second loop ends: the worker runs no more, or the retries are used up;
\* then the response is built, the record deleted, the response sent
HandlerRespond ==
    /\ handler.pc = "drain"
    /\ \E exhausted \in BOOLEAN : ~taskData[handler.id].running \/ exhausted
    /\ \E rec \in {taskData[handler.id]} :
         IF handler.kind \in CompareKinds
         THEN /\ responseDoc' = CompareDoc(rec, handler.loadedTag)
              /\ IF rec.completed /\ rec.result.success
                 THEN \* restoreCurrentTag(loadedTag)
                      /\ current_tag' = handler.loadedTag
                      /\ current_protocol' = handler.loadedTag.protocol
                      /\ compared' = [loaded |-> handler.loadedTag,
                                       physical |-> rec.tagInfo]
                 ELSE UNCHANGED <<current_tag, current_protocol, compared>>
         ELSE /\ responseDoc' =
                   IF handler.kind = "mifare_write_selective"
                   THEN WriteSelectiveDoc(rec)
                   ELSE ReadDoc(rec, handler.kind = "mifare_read")
              /\ UNCHANGED <<current_tag, current_protocol, compared>>
    /\ taskData' = [taskData EXCEPT ![handler.id].heap = "freed"]
    /\ handler' = HandlerIdle
    /\ UNCHANGED <<webFrame, nops, initialized, antenna, task, serial, before_compare,
                   wild_writes>>

\* handleLoad(): load() of the coordinator makes a dump file the current tag
HandleLoad ==
    /\ handler.pc = "idle"
    /\ nops < MaxOps
    /\ IF ~initialized
       THEN /\ responseDoc' = [status |-> HTTP_OK, success |-> FALSE,
                               message |-> "NFCManager not initialized"]
            /\ UNCHANGED <<current_tag, current_protocol>>
       ELSE \E t \in LoadedDumps :
              /\ current_tag' = t
              /\ current_protocol' = t.protocol
              /\ responseDoc' = [status |-> HTTP_OK, success |-> TRUE,
                                 message |-> "File loaded successfully",
                                 protocol |-> t.protocol_name,
                                 uid |-> uidToString(t.uid, t.uid_length),
                                 size |-> getTagDataSize(t)]
    /\ before_compare' = NoCompare
    /\ compared' = << >>
    /\ nops' = nops + 1
    /\ UNCHANGED <<webFrame, initialized, antenna, taskData, task, handler, serial,
                   wild_writes>>

\* handleNfcCommands() of the serial task: srix_read, mifare_read
SerialCommand ==
    \E cmd \in SerialCommands :
      /\ serial.pc = "idle"
      /\ nops < MaxOps
      /\ serial' = [pc |-> IF initialized THEN "hw" ELSE "idle", cmd |-> cmd]
      /\ before_compare' = NoCompare
      /\ nops' = nops + 1
    /\ UNCHANGED <<webFrame, initialized, current_tag, current_protocol, antenna,
                     taskData, task, handler, responseDoc, compared, wild_writes>>

\* the read of the serial task returns
SerialReturn ==
    /\ serial.pc = "hw"
    /\ IF readTag(EngineOf(serial.cmd)).found
       THEN /\ current_tag' = antenna
            /\ current_protocol' = ProtocolOf(EngineOf(serial.cmd))
       ELSE UNCHANGED <<current_tag, current_protocol>>
    /\ serial' = [serial EXCEPT !.pc = "idle"]
    /\ before_compare' = NoCompare
    /\ UNCHANGED <<webFrame, nops, initialized, antenna, taskData, task, handler,
                   responseDoc, compared, wild_writes>>

WebInit ==
    /\ Constructed
    /\ pn532ok
    /\ card = NoCard
    /\ keys = DefaultKeys
    /\ tag = NoTag
    /\ antenna \in PhysicalTags \cup {NothingPresented}
    /\ keys_file = [exists |-> FALSE, lines |-> << >>, open |-> FALSE]
    /\ addr = [done |-> FALSE]
    /\ read_call = [stage |-> "none"]
    /\ mfc_folder = << >>
    /\ save_call = [n |-> 0]
    /\ write_req = [hpc |-> "none"]

WebNext ==
    \/ NFCManagerBegin
    \/ HandleLoad
    \/ HandleRequest
    \/ HandlerPoll
    \/ HandlerRespond
    \/ TaskStart
    \/ TaskOperation
    \/ TaskFinish
    \/ SerialCommand
    \/ SerialReturn

SpecWeb == WebInit /\ [][WebNext]_vars

----------------------------------------------------------------------------
(* The key store (MifareKeysManager) with the text of its keys.  A string  *)
(* is the sequence of its characters; the text of a comment line is one    *)
(* token.  _keys is the std::set<String> as the sequence of its elements   *)
(* in the order of the container; keys_file is /mifare_keys.txt as the     *)
(* sequence of its lines, each with the "\r" println() puts before "\n".   *)

KEY_HEX_LENGTH == 12
MaxKeyOps == 4

\* the characters in the order of their codes
AsciiOrder == <<"\t", "\r", " ", "#", "/", "0", "1", "2", "3", "4", "5", "6", "7",
                "8", "9", "A", "B", "C", "D", "E", "F", "G", "a", "b", "c", "d",
                "e", "f", "g">>

Ord(c) == CHOOSE i \in DOMAIN AsciiOrder : AsciiOrder[i] = c

\* String::operator< of the container's std::less<String>
RECURSIVE StrLess(_, _)
StrLess(a, b) ==
    IF b = << >> THEN FALSE
    ELSE IF a = << >> THEN TRUE
    ELSE IF Head(a) # Head(b) THEN Ord(Head(a)) < Ord(Head(b))
    ELSE StrLess(Tail(a), Tail(b))

\* faulty variant: the letters are left as they are
toUpperCase_Unchanged(s) == s

\* String::toUpperCase
toUpperCase(s) ==
    [i \in DOMAIN s |->
        CASE s[i] = "a" -> "A" [] s[i] = "b" -> "B" [] s[i] = "c" -> "C"
          [] s[i] = "d" -> "D" [] s[i] = "e" -> "E" [] s[i] = "f" -> "F"
          [] s[i] = "g" -> "G" [] OTHER -> s[i]]

\* String::replace(" ", "")
replaceBlanks(s) == SelectSeq(s, LAMBDA c : c # " ")

isspace(c) == c \in {" ", "\t", "\r"}

\* String::trim
RECURSIVE trim(_)
trim(s) ==
    IF s = << >> THEN s
    ELSE IF isspace(Head(s)) THEN trim(Tail(s))
    ELSE IF isspace(s[Len(s)]) THEN trim(SubSeq(s, 1, Len(s) - 1))
    ELSE s

\* String::startsWith
startsWith(s, prefix) ==
    /\ Len(s) >= Len(prefix)
    /\ SubSeq(s, 1, Len(prefix)) = prefix

isxdigit(c) ==
    c \in {"0", "1", "2", "3", "4", "5", "6", "7", "8", "9",
           "A", "B", "C", "D", "E", "F", "a", "b", "c", "d", "e", "f"}

isValidHexKey(key) ==
    /\ Len(key) = KEY_HEX_LENGTH
    /\ \A i \in 1..Len(key) : isxdigit(key[i])

\* _keys.find(key) != _keys.end()
find(set, key) == \E i \in DOMAIN set : set[i] = key

\* _keys.insert(key): no second element equal to one held, order kept
insert(set, key) ==
    IF find(set, key) THEN set
    ELSE LET below == SelectSeq(set, LAMBDA k : StrLess(k, key))
             above == SelectSeq(set, LAMBDA k : StrLess(key, k))
         IN below \o <<key>> \o above

\* _keys.erase(it)
erase(set, key) == SelectSeq(set, LAMBDA k : k # key)

Twice(a, b) == <<a, b, a, b, a, b, a, b, a, b, a, b>>

KeyFF == Twice("F", "F")
KeyMAD == <<"A", "0", "A", "1", "A", "2", "A", "3", "A", "4", "A", "5">>
KeyNDEF == <<"D", "3", "F", "7", "D", "3", "F", "7", "D", "3", "F", "7">>
KeyBlank == Twice("0", "0")
KeyAlt == <<"B", "0", "B", "1", "B", "2", "B", "3", "B", "4", "B", "5">>
KeyCustom == <<"1", "2", "3", "4", "5", "6", "7", "8", "9", "A", "B", "C">>
KeyOwn == <<"0", "A", "0", "B", "0", "C", "0", "D", "0", "E", "0", "F">>

\* File::println on a file opened with FILE_APPEND: the text, "\r" and "\n"
\* go behind the last character of the file, into its last line when that
\* line has no line end
println(file, text) ==
    IF file.open /\ file.lines # << >>
    THEN [file EXCEPT !.lines[Len(file.lines)] = @ \o text \o <<"\r">>,
                      !.open = FALSE]
    ELSE [file EXCEPT !.lines = Append(@, text \o <<"\r">>), !.open = FALSE]

\* lines: the text between the "\n" of the file; open: the last line has
\* no "\n"
NoKeysFile == [exists |-> FALSE, lines |-> << >>, open |-> FALSE]

\* a key file put on the flash by hand: a comment of each kind, a key in
\* lower case, the same key in upper case, a key with blanks, a key between
\* blanks, an empty line, a short key, a key that is no hexadecimal number,
\* a last line without line end
UserKeysFile ==
    [exists |-> TRUE,
     lines |-> <<<<"#", " ", "my keys", "\r">>,
                 <<"/", "/", "old", "\r">>,
                 Twice("f", "f") \o <<"\r">>,
                 KeyFF \o <<"\r">>,
                 <<"a", "0", " ", "a", "1", " ", "a", "2", " ", "a", "3", " ",
                   "a", "4", " ", "a", "5">>,
                 <<" ", "\t">> \o KeyNDEF \o <<" ", "\r">>,
                 <<"\r">>,
                 <<"1", "2", "3", "4", "\r">>,
                 Twice("G", "G") \o <<"\r">>,
                 KeyOwn>>,
     open |-> TRUE]

\* the same file with a line end after its last key
UserKeysFileClosed ==
    [UserKeysFile EXCEPT !.lines[Len(UserKeysFile.lines)] = @ \o <<"\r">>,
                         !.open = FALSE]

KeysFiles == {NoKeysFile, UserKeysFile, UserKeysFileClosed}

\* the strings given to addKey
AddInputs == {Twice("f", "f"),
              <<"1", "2", " ", "3", "4", " ", "5", "6", " ", "7", "8", " ",
                "9", "a", " ", "b", "c">>,
              KeyCustom,
              <<"1", "2", "3", "4", "5", "6", "\t", "7", "8", "9", "A", "B", "C">>,
              Twice("G", "G"),
              <<"1", "2", "3", "4">>,
              KeyOwn \o <<"0">>}

\* the strings given to removeKey and hasKey
RemoveInputs == {KeyFF, KeyCustom, Twice("f", "f"),
                 <<"1", "2", " ", "3", "4", " ", "5", "6", " ", "7", "8", " ",
                   "9", "a", " ", "b", "c">>}

\* the statics of the class and the file, as one value
KeyStore == [keys |-> _keys, loaded |-> _loaded, file |-> keys_file]

\* fs: LittleFS.open() succeeds
saveToFile(st, fs) ==
    IF ~fs THEN st
    ELSE LET header == <<<<"#", " ", "MIFARE CLASSIC KEYS DATABASE", "\r">>,
                         <<"#", " ", "One key per line (12 hex chars = 6 bytes)", "\r">>,
                         <<"#", "\r">>,
                         <<"#", " ", "STANDARD KEYS", "\r">>>>
             body == [i \in DOMAIN st.keys |-> st.keys[i] \o <<"\r">>]
             footer == <<<<"#", "\r">>,
                         <<"#", " ", "Add your custom keys below", "\r">>>>
         IN [st EXCEPT !.file = [exists |-> TRUE, lines |-> header \o body \o footer,
                                 open |-> FALSE]]

appendToFile(st, key, fs) ==
    IF ~st.file.exists THEN saveToFile(st, fs)
    ELSE IF ~fs THEN saveToFile(st, fs)
    ELSE [st EXCEPT !.file = println(@, key)]

\* the loop of loadFromFile over the lines left
RECURSIVE loadLines(_, _)
loadLines(set, lines) ==
    IF lines = << >> THEN set
    ELSE LET line == trim(Head(lines))
             key == replaceBlanks(toUpperCase(line))
         IN IF \/ Len(line) = 0
               \/ startsWith(line, <<"/", "/">>)
               \/ startsWith(line, <<"#">>)
            THEN loadLines(set, Tail(lines))
            ELSE IF isValidHexKey(key) THEN loadLines(insert(set, key), Tail(lines))
            ELSE loadLines(set, Tail(lines))

loadFromFile(st, fs) ==
    IF ~fs THEN st
    ELSE [st EXCEPT !.keys = loadLines(<< >>, st.file.lines)]

createDefaultFile(st, fs) ==
    LET k1 == insert(st.keys, KeyFF)
        k2 == insert(k1, KeyMAD)
        k3 == insert(k2, KeyNDEF)
        k4 == insert(k3, KeyBlank)
        k5 == insert(k4, KeyAlt)
    IN saveToFile([st EXCEPT !.keys = k5], fs)

ensureLoaded(st, fs) ==
    IF st.loaded THEN st
    ELSE [(IF st.file.exists THEN loadFromFile(st, fs) ELSE createDefaultFile(st, fs))
            EXCEPT !.loaded = TRUE]

\* faulty variant: the keys in memory are kept
clear_KeepsKeys(st, fs) ==
    [keys |-> st.keys,
     loaded |-> FALSE,
     file |-> IF st.file.exists /\ fs THEN NoKeysFile ELSE st.file]

\* fs: LittleFS.remove() succeeds
clear(st, fs) ==
    [keys |-> << >>,
     loaded |-> FALSE,
     file |-> IF st.file.exists /\ fs THEN NoKeysFile ELSE st.file]

\* what the rest of the model is left with by a call of the key store
nonKeyVars == <<envVars, keys, engVars, mgrVars, ctlVars, obsVars, fileVars, srixVars,
                webVars, load_arg, partVars>>

\* a call ends: the statics and the file are st, its return value is ret;
\* fresh: it found the store not loaded and no file; working: the file
\* system has refused nothing so far
KeyReturn(st, name, arg, ret, fs) ==
    /\ key_call.n < MaxKeyOps
    /\ _keys' = st.keys
    /\ _loaded' = st.loaded
    /\ keys_file' = st.file
    /\ key_call' = [op |-> name, arg |-> arg, ret |-> ret, n |-> key_call.n + 1,
                    prev |-> key_call.op,
                    fresh |-> ~_loaded /\ ~keys_file.exists /\ st.loaded,
                    working |-> key_call.working /\ fs]
    /\ UNCHANGED nonKeyVars

\* begin(); dir: the directory is there or mkdir() makes it
KeysBegin ==
    \E dir, fs \in BOOLEAN :
        IF ~dir THEN KeyReturn(KeyStore, "begin", << >>, FALSE, FALSE)
        ELSE KeyReturn(ensureLoaded(KeyStore, fs), "begin", << >>, TRUE, fs)

\* ensureLoaded() by itself and through getKeys(), getKeyCount()
EnsureLoaded ==
    \E fs \in BOOLEAN :
        KeyReturn(ensureLoaded(KeyStore, fs), "ensureLoaded", << >>, TRUE, fs)

AddKey ==
    \E key \in AddInputs, fs \in BOOLEAN :
        LET cleanKey == replaceBlanks(toUpperCase(key))
            st == ensureLoaded(KeyStore, fs)
        IN IF ~isValidHexKey(cleanKey) THEN KeyReturn(KeyStore, "addKey", key, FALSE, TRUE)
           ELSE IF find(st.keys, cleanKey) THEN KeyReturn(st, "addKey", key, FALSE, fs)
           ELSE KeyReturn(appendToFile([st EXCEPT !.keys = insert(@, cleanKey)],
                                       cleanKey, fs),
                          "addKey", key, TRUE, fs)

RemoveKey ==
    \E key \in RemoveInputs, fs \in BOOLEAN :
        LET st == ensureLoaded(KeyStore, fs)
        IN IF ~find(st.keys, key) THEN KeyReturn(st, "removeKey", key, FALSE, fs)
           ELSE KeyReturn(saveToFile([st EXCEPT !.keys = erase(@, key)], fs),
                          "removeKey", key, TRUE, fs)

HasKey ==
    \E key \in RemoveInputs, fs \in BOOLEAN :
        LET st == ensureLoaded(KeyStore, fs)
        IN KeyReturn(st, "hasKey", key, find(st.keys, key), fs)

Clear ==
    \E fs \in BOOLEAN : KeyReturn(clear(KeyStore, fs), "clear", << >>, TRUE, fs)

\* the device restarts: the statics are constructed anew, the flash stays
Restart ==
    KeyReturn([keys |-> << >>, loaded |-> FALSE, file |-> keys_file],
              "restart", << >>, TRUE, TRUE)

KeysInit ==
    /\ Constructed
    /\ pn532ok
    /\ card = NoCard
    /\ keys = DefaultKeys
    /\ tag = NoTag
    /\ antenna = NothingPresented
    /\ keys_file \in KeysFiles
    /\ addr = [done |-> FALSE]
    /\ read_call = [stage |-> "none"]
    /\ mfc_folder = << >>
    /\ save_call = [n |-> 0]
    /\ write_req = [hpc |-> "none"]

KeysNext ==
    \/ KeysBegin
    \/ EnsureLoaded
    \/ AddKey
    \/ RemoveKey
    \/ HasKey
    \/ Clear
    \/ Restart

SpecKeys == KeysInit /\ [][KeysNext]_vars

----------------------------------------------------------------------------
(* Block addressing of the Mifare engine, applied to every block of a 1K   *)
(* and of a 4K card                                                        *)

nonAddrVars == <<envVars, keys, engVars, mgrVars, ctlVars, obsVars, fileVars, srixVars,
                 webVars, load_arg, keyVars, read_call, mfc_folder, save_call,
                 write_req>>

\* the sector, first block and block count write_single_block_headless
\* computes for its block
SectorLookup ==
    /\ ~addr.done
    /\ LET sector_ == SectorOfBlock(addr.block)
       IN addr' = [addr EXCEPT !.done = TRUE,
                               !.sector = sector_,
                               !.first_block = getFirstBlockOfSector(sector_),
                               !.block_count = getBlockCountInSector(sector_)]
    /\ UNCHANGED nonAddrVars

\* the next block of the write loop
NextBlock ==
    /\ addr.done
    /\ addr.block + 1 < TotalBlocksOf(addr.type)
    /\ addr' = [addr EXCEPT !.done = FALSE, !.block = @ + 1]
    /\ UNCHANGED nonAddrVars

AddrInit ==
    /\ Constructed
    /\ pn532ok
    /\ card = NoCard
    /\ keys = DefaultKeys
    /\ tag = NoTag
    /\ antenna = NothingPresented
    /\ keys_file = [exists |-> FALSE, lines |-> << >>, open |-> FALSE]
    /\ \E type \in {"CARD_MIFARE_1K", "CARD_MIFARE_4K"} :
       \E b \in 0 .. (TotalBlocksOf(type) - 1) :
          addr = [done |-> FALSE, type |-> type, block |-> b, sector |-> 0,
                  first_block |-> 0, block_count |-> 0]
    /\ read_call = [stage |-> "none"]
    /\ mfc_folder = << >>
    /\ save_call = [n |-> 0]
    /\ write_req = [hpc |-> "none"]

AddrNext ==
    \/ SectorLookup
    \/ NextBlock

SpecAddr == AddrInit /\ [][AddrNext]_vars

----------------------------------------------------------------------------
(* The timeout of an SRIX read on its way from the web handler through     *)
(* readSRIX into the retry loop of read_tag_headless                       *)

MaxTimeoutSec == 30
TIMEOUT_MARGIN_READ_MS == 2000
POLL_INTERVAL_MS == 50
TAG_DETECT_DELAY_MS == 50

\* the first turn of a loop that sleeps "interval" ms per turn at which
\* "ms" milliseconds have passed
FirstTurnAt(ms, interval) == ((ms + interval - 1) \div interval) * interval

\* when a tag is presented to the antenna, in ms after the request
TagArrivals == {[comes |-> FALSE, at |-> 0], [comes |-> TRUE, at |-> 0],
                [comes |-> TRUE, at |-> 5000]}

nonReadVars == <<envVars, keys, engVars, mgrVars, ctlVars, obsVars, fileVars, srixVars,
                 webVars, load_arg, keyVars, addr, mfc_folder, save_call, write_req>>

\* handleSRIXRead: the timeout of the request goes into the task data and
\* the handler's own waiting time is computed from it
HandleSRIXRead ==
    /\ read_call.stage = "request"
    /\ read_call' = [read_call EXCEPT
                       !.stage = "task",
                       !.timeout_sec = read_call.timeout,
                       !.max_wait = (read_call.timeout * 1000) + TIMEOUT_MARGIN_READ_MS]
    /\ UNCHANGED nonReadVars

\* nfcReadTaskSRIX -> readSRIX: "int timeout_ms = timeout_sec * 1000" is
\* handed to read_tag_headless
ReadSRIXTimeout ==
    /\ read_call.stage = "task"
    /\ read_call' = [read_call EXCEPT
                       !.stage = "manager",
                       !.timeout_ms = read_call.timeout_sec * 1000]
    /\ UNCHANGED nonReadVars

\* read_tag_headless(int timeout_seconds): "uint32_t timeout_ms =
\* timeout_seconds * 1000UL" bounds the loop; with the timeouts up to
\* MaxTimeoutSec the product stays far below 2^31 and nothing wraps
ReadTagHeadlessEnter ==
    /\ read_call.stage = "manager"
    /\ LET timeout_seconds == read_call.timeout_ms
       IN  read_call' = [read_call EXCEPT
                           !.stage = "looping",
                           !.loop_timeout_ms = timeout_seconds * 1000]
    /\ UNCHANGED nonReadVars

\* the loop "while ((millis() - startTime) < timeout_ms)" polls every
\* TAG_DETECT_DELAY_MS until a tag answers or the time is over
ReadTagHeadlessLoop ==
    /\ read_call.stage = "looping"
    /\ LET found == /\ read_call.tag.comes
                    /\ read_call.tag.at < read_call.loop_timeout_ms
       IN  read_call' = [read_call EXCEPT
                           !.stage = "returned",
                           !.found = found,
                           !.loop_end = IF found
                                        THEN FirstTurnAt(read_call.tag.at,
                                                         TAG_DETECT_DELAY_MS)
                                        ELSE FirstTurnAt(read_call.loop_timeout_ms,
                                                         TAG_DETECT_DELAY_MS)]
    /\ UNCHANGED nonReadVars

\* the handler's loop "while (!taskData->completed && (millis() - start <
\* max_wait))" ends when the task has completed or max_wait is over
HandlerWaitEnds ==
    /\ read_call.stage = "returned"
    /\ LET gave_up == read_call.max_wait < read_call.loop_end
       IN  read_call' = [read_call EXCEPT
                           !.stage = "answered",
                           !.gave_up = gave_up,
                           !.wait_end = IF gave_up
                                        THEN FirstTurnAt(read_call.max_wait,
                                                         POLL_INTERVAL_MS)
                                        ELSE FirstTurnAt(read_call.loop_end,
                                                         POLL_INTERVAL_MS)]
    /\ UNCHANGED nonReadVars

TimeoutInit ==
    /\ Constructed
    /\ pn532ok
    /\ card = NoCard
    /\ keys = DefaultKeys
    /\ tag = NoTag
    /\ antenna = NothingPresented
    /\ keys_file = [exists |-> FALSE, lines |-> << >>, open |-> FALSE]
    /\ addr = [done |-> FALSE]
    /\ mfc_folder = << >>
    /\ save_call = [n |-> 0]
    /\ write_req = [hpc |-> "none"]
    /\ \E timeout \in 0 .. MaxTimeoutSec, arrival \in TagArrivals :
          read_call = [stage |-> "request", timeout |-> timeout, tag |-> arrival,
                       timeout_sec |-> 0, max_wait |-> 0, timeout_ms |-> 0,
                       loop_timeout_ms |-> 0, found |-> FALSE, loop_end |-> 0,
                       gave_up |-> FALSE, wait_end |-> 0]

TimeoutNext ==
    \/ HandleSRIXRead
    \/ ReadSRIXTimeout
    \/ ReadTagHeadlessEnter
    \/ ReadTagHeadlessLoop
    \/ HandlerWaitEnds

SpecTimeout == TimeoutInit /\ [][TimeoutNext]_vars

----------------------------------------------------------------------------
(* The Mifare engine's save_file_headless on LittleFS: the dumps of the    *)
(* engine, loaded from files, are saved under file names                   *)

MaxSaves == 3

NFC_MIFARE_DUMP_FOLDER ==
    <<"/", "D", "U", "M", "P", "S", "/", "M", "I", "F", "A", "R", "E", "/">>

\* file names given to a save: without extension, with it, a full path
SaveNames == {<<"c">>, <<"c", ".", "m", "f", "c">>, <<"d", ".", "m", "f", "c">>,
              <<"/", "c", ".", "m", "f", "c">>}

\* buildFilePath(): a full path as it is, else the dump folder before the
\* name and ".mfc" behind it where it is missing
buildFilePath(filename) ==
    IF startsWith(filename, <<"/">>) THEN filename
    ELSE NFC_MIFARE_DUMP_FOLDER
           \o (IF endsWith(filename, <<".", "m", "f", "c">>) THEN filename
               ELSE filename \o <<".", "m", "f", "c">>)

\* LittleFS.open(filepath, FILE_WRITE), writeFileFormat(file), close: the
\* file of that path is created or truncated and holds the text
WriteFile(folder, filepath, text) ==
    [q \in DOMAIN folder \cup {filepath} |->
       IF q = filepath THEN text ELSE folder[q]]

\* save_file_headless(filename): "" without a valid dump or when the file
\* cannot be opened, else the path written
SaveFileHeadless ==
    /\ pc = "idle"
    /\ save_call.n < MaxSaves
    \* an engine with a UID length beyond its UID buffer is followed no further
    /\ uid_length <= MIFARE_UID_MAX_SIZE
    /\ \E filename \in SaveNames, opened \in BOOLEAN :
         LET filepath == buildFilePath(filename)
             saved == dump_valid /\ opened
         IN  /\ mfc_folder' = IF saved
                              THEN WriteFile(mfc_folder, filepath,
                                             writeFileFormat(dump, uid))
                              ELSE mfc_folder
             /\ save_call' = [n |-> save_call.n + 1, filename |-> filename,
                              ret |-> IF saved THEN filepath ELSE << >>,
                              before |-> mfc_folder,
                              text |-> writeFileFormat(dump, uid)]
    /\ UNCHANGED <<envVars, keys, engVars, mgrVars, ctlVars, obsVars, fileVars, srixVars,
                   webVars, load_arg, keyVars, addr, read_call, write_req>>

SaveInit ==
    /\ Constructed
    /\ pn532ok
    /\ card = NoCard
    /\ keys = DefaultKeys
    /\ tag = NoTag
    /\ antenna = NothingPresented
    /\ keys_file = [exists |-> FALSE, lines |-> << >>, open |-> FALSE]
    /\ addr = [done |-> FALSE]
    /\ read_call = [stage |-> "none"]
    /\ mfc_folder = << >>
    /\ save_call = [n |-> 0]
    /\ write_req = [hpc |-> "none"]

SaveNext ==
    \/ NFCManagerBegin
    \/ LoadMifare
    \/ SaveFileHeadless

SpecSave == SaveInit /\ [][SaveNext]_vars

----------------------------------------------------------------------------
(* handleSRIXWrite, handleMifareWrite, handleMifareClone and their workers *)
(* nfcWriteTaskSRIX, nfcWriteTaskMifare, nfcCloneTaskMifare, which delete  *)
(* the task data themselves.  Time passes in steps of the shortest sleep,  *)
(* POLL_INTERVAL_SLOW_MS; what falls into the same step happens in either  *)
(* order.                                                                  *)

\* the bound of the handler's first loop, timeout * 1000 + ..._EXTRA_MS, in ms
MaxWait == 300
POLL_INTERVAL_SLOW_MS == 100
POLL_INTERVAL_VERY_SLOW_MS == 500
MAX_RETRIES_STANDARD == 10
MAX_RETRIES_LONG_OP == 30

WriteKinds == {"srix_write", "mifare_write", "mifare_clone"}

\* the sleep per turn and the number of turns of the handler's second loop
DrainDelay(kind) ==
    CASE kind = "srix_write" -> POLL_INTERVAL_VERY_SLOW_MS
      [] kind = "mifare_write" -> 1000
      [] OTHER -> 200

DrainRetries(kind) ==
    IF kind = "mifare_clone" THEN MAX_RETRIES_STANDARD ELSE MAX_RETRIES_LONG_OP

nonWriteVars == <<envVars, keys, engVars, mgrVars, ctlVars, obsVars, fileVars, srixVars,
                  webVars, load_arg, keyVars, addr, read_call, mfc_folder, save_call>>

\* the values a read of a flag of the task data can give: the flag while the
\* record lives, anything once it is freed
ReadFlag(flag) == IF write_req.heap = "live" THEN {flag} ELSE BOOLEAN

\* the fields read now are noted when the record is freed already
Noted(fields) == IF write_req.heap = "freed" THEN write_req.stale \cup fields
                 ELSE write_req.stale

\* the handler up to its first loop: new ...TaskData, xTaskCreatePinnedToCore,
\* "delete taskData" when the task was not created
HandleWrite ==
    /\ write_req.hpc = "request"
    /\ \E created \in BOOLEAN :
         write_req' = IF created
                      THEN [write_req EXCEPT !.hpc = "poll", !.wpc = "created",
                                             !.heap = "live"]
                      ELSE [write_req EXCEPT !.hpc = "sent", !.heap = "freed",
                                             !.frees = @ + 1,
                                             !.doc = ErrorDoc(HTTP_INTERNAL_ERROR,
                                                              "Failed to create task")]
    /\ UNCHANGED nonWriteVars

\* data->running = true, then the blocking write
WriteTaskStart ==
    /\ write_req.wpc = "created"
    /\ write_req' = [write_req EXCEPT !.wpc = "hw", !.running = TRUE]
    /\ UNCHANGED nonWriteVars

\* the write returns: data->result, data->running = false,
\* data->completed = true, then delay(100)
WriteTaskDone ==
    /\ write_req.wpc = "hw"
    /\ \E r \in {WebResult(TRUE, "Write complete", 0),
                  WebResult(FALSE, "Write failed", -1)} :
         write_req' = [write_req EXCEPT !.wpc = "cleanup", !.result = r,
                                        !.running = FALSE, !.completed = TRUE,
                                        !.w_left = 100]
    /\ UNCHANGED nonWriteVars

\* delete data; vTaskDelete(NULL)
WriteTaskDelete ==
    /\ write_req.wpc = "cleanup"
    /\ write_req.w_left = 0
    /\ write_req' = [write_req EXCEPT !.wpc = "exited", !.heap = "freed",
                                      !.frees = @ + 1]
    /\ UNCHANGED nonWriteVars

\* one test of "while (!taskData->completed && (millis() - start < max_wait))"
\* and the delay(POLL_INTERVAL_SLOW_MS) of a turn
HandlerWritePoll ==
    /\ write_req.hpc = "poll"
    /\ write_req.h_left = 0
    /\ \E completed \in ReadFlag(write_req.completed) :
         write_req' =
           IF ~completed /\ write_req.elapsed < MaxWait
           THEN [write_req EXCEPT !.h_left = POLL_INTERVAL_SLOW_MS,
                                  !.elapsed = @ + POLL_INTERVAL_SLOW_MS,
                                  !.stale = Noted({"completed"})]
           ELSE [write_req EXCEPT !.hpc = "drain", !.stale = Noted({"completed"})]
    /\ UNCHANGED nonWriteVars

\* one test of "while (taskData->running && retries < MAX_RETRIES...)" and
\* the delay of a turn
HandlerWriteDrain ==
    /\ write_req.hpc = "drain"
    /\ write_req.h_left = 0
    /\ \E running \in ReadFlag(write_req.running) :
         write_req' =
           IF running /\ write_req.retries < DrainRetries(write_req.kind)
           THEN [write_req EXCEPT !.h_left = DrainDelay(write_req.kind),
                                  !.retries = @ + 1,
                                  !.stale = Noted({"running"})]
           ELSE [write_req EXCEPT !.hpc = "build", !.stale = Noted({"running"})]
    /\ UNCHANGED nonWriteVars

\* the response: "if (taskData->completed)" the result of the record, else
\* the timeout message; the handler does not delete the record
HandlerWriteRespond ==
    /\ write_req.hpc = "build"
    /\ \E completed \in ReadFlag(write_req.completed) :
       \E res \in (IF write_req.heap = "live" THEN {write_req.result}
                      ELSE {write_req.result, WebResult(TRUE, "", 0)}) :
         write_req' =
           IF completed
           THEN [write_req EXCEPT !.hpc = "sent",
                                  !.stale = Noted({"completed", "result"}),
                                  !.doc = [status |-> HTTP_OK,
                                           success |-> res.success,
                                           message |-> res.message,
                                           code |-> res.code]]
           ELSE [write_req EXCEPT !.hpc = "sent",
                                  !.stale = Noted({"completed"}),
                                  !.doc = [status |-> HTTP_OK, success |-> FALSE,
                                           message |-> "Write timeout", code |-> -99]]
    /\ UNCHANGED nonWriteVars

\* POLL_INTERVAL_SLOW_MS pass: nobody whose sleep is over has still to act
WriteTick ==
    /\ write_req.h_left > 0 \/ write_req.w_left > 0
    /\ write_req.hpc \in {"poll", "drain"} => write_req.h_left > 0
    /\ write_req.hpc # "build"
    /\ write_req.wpc = "cleanup" => write_req.w_left > 0
    /\ write_req' = [write_req EXCEPT
                        !.h_left = IF @ > POLL_INTERVAL_SLOW_MS
                                   THEN @ - POLL_INTERVAL_SLOW_MS ELSE 0,
                        !.w_left = IF @ > POLL_INTERVAL_SLOW_MS
                                   THEN @ - POLL_INTERVAL_SLOW_MS ELSE 0]
    /\ UNCHANGED nonWriteVars

WriteInit ==
    /\ Constructed
    /\ pn532ok
    /\ card = NoCard
    /\ keys = DefaultKeys
    /\ tag = NoTag
    /\ antenna = NothingPresented
    /\ keys_file = [exists |-> FALSE, lines |-> << >>, open |-> FALSE]
    /\ addr = [done |-> FALSE]
    /\ read_call = [stage |-> "none"]
    /\ mfc_folder = << >>
    /\ save_call = [n |-> 0]
    /\ \E kind \in WriteKinds :
          write_req = [kind |-> kind, hpc |-> "request", wpc |-> "none",
                       heap |-> "none", frees |-> 0, running |-> FALSE,
                       completed |-> FALSE, result |-> WebResult(FALSE, "", 0),
                       elapsed |-> 0, retries |-> 0, h_left |-> 0, w_left |-> 0,
                       stale |-> {}, doc |-> EmptyDoc]

WriteNext ==
    \/ HandleWrite
    \/ WriteTaskStart
    \/ WriteTaskDone
    \/ WriteTaskDelete
    \/ HandlerWritePoll
    \/ HandlerWriteDrain
    \/ HandlerWriteRespond
    \/ WriteTick

SpecWrite == WriteInit /\ [][WriteNext]_vars

----------------------------------------------------------------------------
(* Properties *)

RECURSIVE AuthWhilePending(_, _)
\* some authentication call of the sequence is issued while a failed
\* authentication has not been followed by a select
AuthWhilePending(p, calls) ==
    IF calls = << >> THEN FALSE
    ELSE LET x == Head(calls)
         IN  \/ (x.c = "auth" /\ p)
             \/ AuthWhilePending(PendingAfter(p, <<x>>), Tail(calls))

\* C1: in every engine operation a failed hardware authentication is
\* followed by a re-select before the next hardware authentication is
\* attempted.  The code breaks this in write_tag_headless.
C1_ReselectBeforeNextAuth ==
    [][~AuthWhilePending(pendingFail, hw')]_vars

\* the attempts a cascade makes when every one of them fails: hint or saved
\* Key A, hint or saved Key B, the database as Key A, the database as Key B
CascadeOrder(a, b, K) ==
    (IF a # NoKey THEN <<[kt |-> "A", k |-> a, src |-> "cached"]>> ELSE << >>)
    \o (IF b # NoKey THEN <<[kt |-> "B", k |-> b, src |-> "cached"]>> ELSE << >>)
    \o [i \in 1 .. Cardinality(K) |-> [kt |-> "A", k |-> KeySeq(K)[i], src |-> "db"]]
    \o [i \in 1 .. Cardinality(K) |-> [kt |-> "B", k |-> KeySeq(K)[i], src |-> "db"]]

AttemptsFollowOrder ==
    LET exp == CascadeOrder(cascStart.a, cascStart.b, keys)
    IN  /\ Len(attempts) <= Len(exp)
        /\ \A i \in 1 .. Len(attempts) :
             /\ attempts[i].kt = exp[i].kt
             /\ attempts[i].k = exp[i].k
             /\ attempts[i].src = exp[i].src
             /\ (attempts[i].ok => i = Len(attempts))

AllAttemptsFailed ==
    /\ Len(attempts) = Len(CascadeOrder(cascStart.a, cascStart.b, keys))
    /\ \A i \in 1 .. Len(attempts) : ~attempts[i].ok

\* C2: the cascade of a read or a write tries the cached Key A, the cached
\* Key B, every database key as Key A in the store's order, every database
\* key as Key B; it stops at the first success, and the sector is reported
\* as failing authentication only after every attempt failed.
C2_CascadeOrder ==
    (op \in {"read", "write", "selective"} /\ cascRes # "none") =>
        /\ AttemptsFollowOrder
        /\ (cascRes = "ok" => Len(attempts) > 0 /\ attempts[Len(attempts)].ok)
        /\ (pc \in {"r_block", "w_block", "s_write"} => cascRes = "ok")
        /\ (pc = "r_next" /\ secres = ERROR_AUTH_FAILED => AllAttemptsFailed)
        /\ (pc = "idle" /\ op # "read" /\ result.code = ERROR_AUTH_FAILED
               => AllAttemptsFailed)

\* a sector's hint failed, the Key A scan failed, the Key B scan succeeded
C2_Witness ==
    /\ op = "read"
    /\ cascRes = "ok"
    /\ Len(attempts) > Cardinality(keys) + 1
    /\ attempts[1].src = "cached"
    /\ attempts[Len(attempts)].kt = "B"
    /\ attempts[Len(attempts)].src = "db"

\* C3: a full write takes the sectors in ascending order; after the first
\* sector that fails authentication or the first block write that fails no
\* further block is written and the operation returns that failure's code.
C3_WriteAbortsOnFirstFailure ==
    op = "write" =>
        /\ \A i \in 1 .. Len(wlog) :
             /\ SectorOfBlock(wlog[i].b) <= sector
             /\ (i < Len(wlog) => wlog[i].ok /\ wlog[i].b < wlog[i + 1].b)
        /\ (Len(wlog) > 0 /\ ~wlog[Len(wlog)].ok =>
               pc = "idle" /\ result = Result(FALSE, ERROR_WRITE_FAILED))
        /\ (cascRes = "failed" =>
               /\ pc = "idle"
               /\ result = Result(FALSE, ERROR_AUTH_FAILED)
               /\ \A i \in 1 .. Len(wlog) : SectorOfBlock(wlog[i].b) < sector)

\* a sector failed authentication after earlier sectors had been written
C3_Witness ==
    /\ op = "write"
    /\ cascRes = "failed"
    /\ Len(wlog) > 2
    /\ result.code = ERROR_AUTH_FAILED

\* C4: no full, selective or single-block write issues a hardware write to
\* block 0 or to a sector trailer; block 0 is written only by the UID clone.
C4_ProtectedBlocksNeverWritten ==
    /\ \A i \in 1 .. Len(hw) :
         hw[i].c = "write" =>
            /\ ~IsTrailerOn(hw[i].b)
            /\ (hw[i].b = UID_BLOCK => op = "clone")
    /\ \A i \in 1 .. Len(wlog) :
         /\ ~IsTrailerOn(wlog[i].b)
         /\ (wlog[i].b = UID_BLOCK => op = "clone")

\* a full write went past the trailer of sector 0 into sector 1
C4_Witness ==
    /\ op = "write"
    /\ \E i, j \in 1 .. Len(wlog) : wlog[i].b = 2 /\ wlog[j].b = 4

\* block 0 and the sector trailers
ProtectedBlock(b) == b = UID_BLOCK \/ IsTrailerOn(b)

\* the next block of the request q the loop handles from index i on
\* (-1: none is left)
NextRequested(q, i) ==
    LET cand == {j \in i .. Len(q) : q[j] < TAGINFO_MIFARE_BLOCKS}
    IN  IF cand = {} THEN -1 ELSE q[MinOf(cand)]

NextIsProtected(q, i) ==
    NextRequested(q, i) >= 0 /\ ProtectedBlock(NextRequested(q, i))

\* C5: when the next block of an accepted selective-write request is block
\* 0 or a sector trailer, no hardware call is made for it (no transport
\* initialisation, detection, authentication or write), the request returns
\* InvalidData and no later block is attempted.  The code initialises the
\* transport first when no engine exists yet.
C5_ProtectedBlockRejectedWithoutHardware ==
    [][(/\ pc \in {"idle", "s_next"}
        /\ op' = "selective"
        /\ current_tag.valid
        /\ (pc = "idle" => nops' = nops + 1)
        /\ NextIsProtected(req', IF pc = "idle" THEN 1 ELSE reqi))
       => /\ hw' = << >>
          /\ wlog' = wlog
          /\ (pc = "s_next" => pc' = "idle")
          /\ (pc' = "idle" => result' = Result(FALSE, ERROR_INVALID_DATA))]_vars

\* the part of C5 that holds in every state: the engine's own rejection of
\* a protected block makes no hardware call and ends the batch
C5_EngineRejectionIsHardwareFree ==
    [][(/\ pc = "s_next"
        /\ NextIsProtected(req, reqi))
       => /\ hw' = << >>
          /\ wlog' = wlog
          /\ pc' = "idle"
          /\ result' = Result(FALSE, ERROR_INVALID_DATA)]_vars

\* the dump offered to a full write is of another card type than the card
\* in the field
TypeMismatch ==
    /\ current_tag.valid
    /\ current_tag.protocol = "PROTOCOL_MIFARE_CLASSIC"
    /\ card.present
    /\ current_tag.protocol_name # cardTypeToString(card.type)

\* C6: a full write of a dump whose card type (1K, 4K) differs from the
\* type of the card presented returns InvalidData and writes no block to
\* the card.  detectCard() overwrites the dump's type with the card's, so
\* the code compares the card with itself.
C6_TypeMismatchWritesNothing ==
    (op = "write" /\ TypeMismatch) =>
        /\ wlog = << >>
        /\ (pc = "idle" =>
               /\ ~result.success
               /\ result.code \in {ERROR_INVALID_DATA, ERROR_NO_TAG})

\* C7: the block-0 payload of cloneMifareUID(record) is the record's UID
\* (uid_length bytes), the XOR of those bytes, SAK, ATQA: the UID written
\* is the record's and not the one detectCard() read from the target card.
\* The code writes the target card's own UID.
C7_CloneWritesRecordUid ==
    (op = "clone" /\ pc = "idle" /\ result.success) =>
        LET n == current_tag.uid_length
        IN  /\ \A i \in 1 .. n : block0[i] = current_tag.uid[i]
            /\ block0[n + 1] = XorOfBytes(current_tag.uid, n)
            /\ block0[n + 2] = sak
            /\ block0[n + 3] = atqa[2]
            /\ block0[n + 4] = atqa[1]

\* the trailer of the sector s in the dump against what the card returns
TrailerFaithful(s) ==
    LET tb == TrailerOfSector(s)
        rb == Readback(card, tb)
    IN  /\ dump[tb][2] = rb[2]
        /\ (dump[tb][1] # rb[1] => <<s, "A", dump[tb][1]>> \in authlog)
        /\ (dump[tb][3] # rb[3] => <<s, "B", dump[tb][3]>> \in authlog)

\* C8: after a read pass the dump's trailer of every authenticated sector
\* differs from the bytes read from the card in its key fields only, and a
\* key field that was overwritten holds a key that authenticated this
\* sector on this card during this pass.  The keys kept from an earlier
\* load or read are written as well.
C8_TrailerKeysAuthenticated ==
    (op = "read" /\ pc = "idle" /\ visited # << >>) =>
        \A s \in 0 .. (getSectorCount(card_type) - 1) :
            sector_auth_success[s] => TrailerFaithful(s)

\* the part of C8 about the access bytes, which holds
C8_AccessBytesAsRead ==
    (op = "read" /\ pc = "idle" /\ visited # << >>) =>
        \A s \in 0 .. (getSectorCount(card_type) - 1) :
            sector_auth_success[s] =>
                dump[TrailerOfSector(s)][2] = Readback(card, TrailerOfSector(s))[2]

\* the sector s authenticated during this pass
AuthenticatedInPass(s) == \E e \in authlog : e[1] = s

\* C9: a read pass attempts every sector of the card (of the type
\* detectCard() found) in ascending order, also after sectors that failed;
\* a sector that fails authentication is marked unauthenticated;
\* blocks_read is the number of blocks read from the card, so it is below
\* total_blocks exactly when a block was not read.
C9_ReadPassCoversAllSectors ==
    (op = "read" /\ visited # << >>) =>
        /\ \A i \in 1 .. Len(visited) : visited[i] = i - 1
        /\ blocks_read = Cardinality(rlog)
        /\ \A i \in 1 .. Len(visited) :
             (pc = "idle" \/ i < Len(visited)) =>
                (~AuthenticatedInPass(visited[i]) => ~sector_auth_success[visited[i]])
        /\ (pc = "idle" =>
               /\ Len(visited) = getSectorCount(card_type)
               /\ total_blocks = TotalBlocksOf(card_type)
               /\ (blocks_read < total_blocks
                     <=> \E b \in 0 .. (total_blocks - 1) : b \notin rlog))

\* a pass ended after a sector failed authentication and a later sector
\* was read
C9_Witness ==
    /\ op = "read"
    /\ pc = "idle"
    /\ visited # << >>
    /\ \E s, t \in 0 .. (getSectorCount(card_type) - 1) :
         /\ s < t
         /\ ~AuthenticatedInPass(s)
         /\ ~sector_auth_success[s]
         /\ sector_auth_success[t]
    /\ blocks_read > 0
    /\ blocks_read < total_blocks

\* the key of the type kt the scans of the sectors before s found last
\* (NoKey: none)
LastFound(kt, s) ==
    LET idx == {i \in 1 .. Len(scanFound) :
                  scanFound[i].kt = kt /\ scanFound[i].sector < s}
    IN  IF idx = {} THEN NoKey
        ELSE scanFound[CHOOSE i \in idx : \A j \in idx : j <= i].k

HintCount == (IF cascStart.a # NoKey THEN 1 ELSE 0) + (IF cascStart.b # NoKey THEN 1 ELSE 0)

\* C10, as stated: once a scan found a working key on a sector, every
\* later sector of the pass tries that key first
C10_FoundKeyTriedFirst ==
    (op = "read" /\ cascRes # "none") =>
        \A i \in 1 .. Len(scanFound) :
            (scanFound[i].sector < sector /\ Len(attempts) > 0) =>
                /\ attempts[1].src = "cached"
                /\ attempts[1].kt = scanFound[i].kt
                /\ attempts[1].k = scanFound[i].k

\* C10, amended: within a read pass a sector's hints are the Key A and the
\* Key B the scans of the earlier sectors found last (none on sector 0, so
\* both hints are empty when a pass starts); the hints are tried, Key A
\* then Key B, before any database attempt, and a sector on which a hint
\* works gets no database attempt.
C10_HintsTriedFirst ==
    (op = "read" /\ cascRes # "none") =>
        /\ cascStart.a = LastFound("A", sector)
        /\ cascStart.b = LastFound("B", sector)
        /\ (sector = 0 => cascStart.a = NoKey /\ cascStart.b = NoKey)
        /\ \A i \in 1 .. Len(attempts) :
             /\ (attempts[i].src = "cached" <=> i <= HintCount)
             /\ (i = 1 /\ cascStart.a # NoKey =>
                    attempts[i].kt = "A" /\ attempts[i].k = cascStart.a)
             /\ (i = HintCount /\ cascStart.b # NoKey =>
                    attempts[i].kt = "B" /\ attempts[i].k = cascStart.b)
             /\ (attempts[i].src = "cached" /\ attempts[i].ok =>
                    \A j \in 1 .. Len(attempts) : attempts[j].src = "cached")

\* the Key A hint failed on a sector and the Key B hint worked
C10_Witness ==
    /\ op = "read"
    /\ cascRes = "ok"
    /\ cascStart.a # NoKey
    /\ cascStart.b # NoKey
    /\ Len(attempts) = 2
    /\ attempts[2].src = "cached"
    /\ attempts[2].ok


----------------------------------------------------------------------------
(* C11 *)

\* C11: readMifare reports success (code 0) and puts a valid record in
\* place of the current one only if the read pass succeeded, that is, at
\* least one block was read; a detected card of which no sector
\* authenticates gives a failure.
C11_ReadSuccessNeedsReadPass ==
    (op = "read" /\ pc = "idle" /\ result.success) => blocks_read > 0

----------------------------------------------------------------------------
(* C12, C13: the full SRIX write *)

\* positions of the block writes among the transport calls made
WritesOf(log) == {i \in 1 .. Len(log) : log[i].c = "write"}
AckedWritesOf(log) == {i \in WritesOf(log) : log[i].ok}

\* between positions i and j there is a delay and, after it, a select that
\* found the tag
SettledBetween(log, i, j) ==
    \E p, q \in (i + 1) .. (j - 1) :
        /\ p < q
        /\ log[p].c = "delay"
        /\ log[q].c = "select" /\ log[q].ok

\* C12: a full SRIX write issues its block writes in ascending order from
\* block 0 (all of 0..127 when it succeeds), and between the write of a
\* block and the write of the next one the commit delay has passed and the
\* tag has been found again.
C12_WritesAscendingAndSettled ==
    op = "write_srix" =>
        /\ \A i \in WritesOf(slog) :
               /\ slog[i].b = Cardinality({j \in WritesOf(slog) : j < i})
               /\ \A j \in WritesOf(slog) :
                      j > i => (slog[i].ok /\ SettledBetween(slog, i, j))
        /\ result.code = 0 => Cardinality(AckedWritesOf(slog)) = SRIX_BLOCK_COUNT

C12_Witness ==
    /\ op = "write_srix"
    /\ pc = "idle"
    /\ result.success
    /\ Cardinality(WritesOf(slog)) = SRIX_BLOCK_COUNT

\* the tag was written to and the last call is a select that did not find it
TagLostInWrite ==
    /\ op = "write_srix"
    /\ pc = "idle"
    /\ AckedWritesOf(slog) # {}
    /\ slog[Len(slog)].c = "select"
    /\ ~slog[Len(slog)].ok

\* C13: when the tag is not found again after N blocks of a full SRIX write,
\* exactly the blocks 0..N-1 have been written and the coordinator's Result
\* is a failure with code N > 0 and the tag-lost message, not a negative
\* code.
C13_TagLostReportsCount ==
    TagLostInWrite =>
        LET N == Cardinality(AckedWritesOf(slog))
        IN  /\ {slog[i].b : i \in AckedWritesOf(slog)} = 0 .. (N - 1)
            /\ \A b \in 0 .. (N - 1) : b \notin tag.worn => tag.mem[b] = srix_dump[b]
            /\ result = Result(FALSE, N)
            /\ message = "Tag lost at block: "

C13_Witness ==
    /\ TagLostInWrite
    /\ result.code = 50
    /\ Cardinality(AckedWritesOf(slog)) = 50

----------------------------------------------------------------------------
(* C14: the single-block SRIX write *)

\* C14: writeSRIXBlock returns success = true for the engine results 0
\* (written and verified), 1 (written, read-back differs) and 2 (written,
\* verification not possible); only negative engine results are failures.
C14_VerifyOutcomesAreSuccess ==
    (op = "write_block" /\ pc = "idle") =>
        /\ result.code \in {SUCCESS, SUCCESS_VERIFY_FAIL, SUCCESS_VERIFY_SKIP}
               => result.success
        /\ ~result.success => result.code < 0

----------------------------------------------------------------------------
(* C15, C16: the validity of the SRIX engine's dump *)

\* SRIXTool::isDumpValid()
isDumpValid == dump_valid_from_read \/ dump_valid_from_load

\* C15: whenever the SRIX engine reports its dump as valid, the buffer is
\* the complete image of one successful read pass, file load or copy from a
\* record; an aborted read pass or a rejected load leaves no valid-flagged
\* buffer that is partly overwritten or zeroed.
C15_ValidDumpIsOneImage ==
    (pc = "idle" /\ isDumpValid) => srix_dump = srix_image

\* the index XX of a data line is block b
LineNames(line, b) == strtoul(line.idx) = b

\* C16: loading an .srix file succeeds only if each of the 128 block
\* indices 00..7F is present with data in the file.
C16_LoadNeedsEveryBlock ==
    (op = "load_srix" /\ pc = "idle" /\ result.success) =>
        \A b \in SrixBlocks :
            \E i \in 1 .. Len(srix_files[file_arg].lines) :
                /\ LineNames(srix_files[file_arg].lines[i], b)
                /\ Len(srix_files[file_arg].lines[i].data) >= 8

----------------------------------------------------------------------------
(* C18: the SRIX file round trip *)

\* an .srix file in the format of the dump folder: a UID of 16 digits and
\* the lines [00] .. [7F] in order, each with the 8 digits of its block
WellFormedSrix(f) ==
    /\ Len(f.uid) = SRIX_UID_SIZE * HEX_CHARS_PER_BYTE
    /\ Len(f.lines) = SRIX_BLOCK_COUNT
    /\ \A i \in 1 .. SRIX_BLOCK_COUNT :
           /\ f.lines[i].idx = <<(i - 1) \div 16, (i - 1) % 16>>
           /\ Len(f.lines[i].data) = SRIX_BLOCK_SIZE * HEX_CHARS_PER_BYTE

\* the last operation was the successful load of a well-formed file
LoadedWellFormed ==
    /\ op = "load_srix"
    /\ pc = "idle"
    /\ result.success
    /\ WellFormedSrix(srix_files[file_arg])

\* saveSRIX of the loaded record: the file written has the content of the
\* file loaded, and loading it gives the record's UID and payload
SaveReproducesLoaded ==
    (LoadedWellFormed /\ SaveSRIX /\ result'.success) =>
        /\ srix_files'[file_arg'] = srix_files[file_arg]
        /\ load_file_headless(srix_files'[file_arg']) =
               [uid |-> [i \in 1 .. SRIX_UID_SIZE |-> current_tag.uid[i]],
                dump |-> current_tag.dump, code |-> SUCCESS]

\* C18: loading a well-formed 128-block .srix file yields a record with
\* uid_length = 8, and saving that record writes a file with the content of
\* the original, whose load yields the same 8-byte UID and the same 512-byte
\* payload.
C18_SrixRoundTrip ==
    /\ [](LoadedWellFormed => (current_tag.valid /\ current_tag.uid_length = 8))
    /\ [][SaveReproducesLoaded]_vars

\* a file was saved that has the content of the well-formed file loaded
\* before it
C18_Witness ==
    /\ op = "save_srix"
    /\ pc = "idle"
    /\ result.success
    /\ file_arg = Len(srix_files)
    /\ srix_files[file_arg] = SrixFileGood
    /\ load_file_headless(srix_files[file_arg]).dump = current_tag.dump

----------------------------------------------------------------------------
(* C19: success and code of a Result *)

\* C19: in the Result of every coordinator operation success is true if
\* and only if code = 0; a failure has a negative code, or a positive one
\* when it is the outcome of a write (tag lost, verification uncertain).
C19_SuccessIffCodeZero ==
    (pc = "idle" /\ op \notin {"none", "present", "clear"}) =>
        /\ result.success <=> (result.code = 0)
        /\ result.code > 0 =>
               op \in {"write_srix", "write_block", "write_srix_selective"}

----------------------------------------------------------------------------
(* C20: the selective write and its request *)

\* C20: a selective write that returns code 0 has written every block
\* number of its request; a request with an out-of-range block index does
\* not return code 0 but a failure.
C20_SelectiveWritesWholeRequest ==
    (op = "write_srix_selective" /\ pc = "idle") =>
        /\ result.code = 0 =>
               \A i \in 1 .. Len(req) :
                   \E j \in AckedWritesOf(slog) : slog[j].b = req[i]
        /\ (\E i \in 1 .. Len(req) : req[i] > SRIX_MAX_BLOCK_NUM) =>
               (~result.success /\ result.code < 0)

----------------------------------------------------------------------------
(* C17: the Mifare file round trip *)

\* C17: for the Mifare dump the engine holds after a read or a load, full
\* or partial, the .mfc file saved from it parses back to the same UID and
\* UID length, SAK, ATQA bytes in the same positions and card type, and to
\* the same bytes at the same block index for every block that was read.
C17_MifareRoundTrip ==
    (op = "save" /\ pc = "idle" /\ result.success) =>
        LET p == parseFileFormat(mfc_file)
        IN  /\ p.type = card_type
            /\ Len(p.uid) = uid_length
            /\ \A i \in 1 .. uid_length : p.uid[i] = uid[i]
            /\ p.sak = sak
            /\ p.atqa = atqa
            /\ \A b \in held : b < Len(p.pages) /\ p.pages[b + 1] = dump[b]

----------------------------------------------------------------------------
(* The web API and the serial console: properties under SpecWeb *)

\* the tasks inside a hardware operation of one engine; 0 is the serial task
InFlight(engine) ==
    {i \in Requests : task[i].pc = "hw" /\ EngineOf(task[i].fn) = engine}
    \cup (IF serial.pc = "hw" /\ EngineOf(serial.cmd) = engine THEN {0} ELSE {})

\* C21: at no time are two hardware operations in flight on the same
\* protocol engine, whoever asked for them: a web request after an earlier
\* one whose handler gave up waiting, or the serial console
C21_OneOperationPerEngine ==
    \A engine \in {"srix", "mifare"} : Cardinality(InFlight(engine)) <= 1

\* C22: a task data record is never freed while its worker can still store
\* its result or its flags into it; a handler whose wait bound expired
\* leaves the record allocated
C22_RecordOutlivesWorker ==
    \A i \in Requests :
      taskData[i].heap = "freed" => task[i].pc \in {"none", "exited"}

\* C23: once a compare request has finished, its handler returned and its
\* worker ended, the coordinator's current tag and current protocol are what
\* they were before the compare started
C23_CompareRestoresCurrentTag ==
    (/\ before_compare.id # 0
     /\ handler.id # before_compare.id
     /\ task[before_compare.id].pc \in {"none", "exited"})
    => /\ current_tag = before_compare.tag
       /\ current_protocol = before_compare.protocol

\* the bytes a payload string of the differences list stands for
PayloadBytes(str) == [k \in 1 .. ((Len(str) + 1) \div 3) |->
                         str[3 * k - 2] * 16 + str[3 * k - 1]]
PayloadWellFormed(str, n) ==
    /\ Len(str) = 3 * n - 1
    /\ \A k \in 1 .. Len(str) : IF k % 3 = 0 THEN str[k] = Blank ELSE str[k] \in 0 .. 15

BlockBytes(d, block, n) == [k \in 1 .. n |-> d[block * n + k]]

\* the compare helper was given two dumps of one supported size
ComparedEqualSize ==
    /\ compared # << >>
    /\ Len(compared.loaded.dump) = Len(compared.physical.dump)
    /\ compared.loaded.protocol = compared.physical.protocol
    /\ Len(compared.loaded.dump) \in {SRIX_DUMP_SIZE, MIFARE_1K_DUMP_SIZE}

ComparedUnlike ==
    /\ compared # << >>
    /\ \/ compared.loaded.protocol # compared.physical.protocol
       \/ compared.loaded.protocol_name # compared.physical.protocol_name

\* C25: a compare of a loaded dump against a tag of another protocol or of
\* another card capacity reports success = false and size_mismatch = true
\* and has no differences list
C25_UnlikeIsSizeMismatch ==
    ComparedUnlike =>
      /\ responseDoc.success = FALSE
      /\ "size_mismatch" \in DOMAIN responseDoc
      /\ responseDoc.size_mismatch = TRUE
      /\ "differences" \notin DOMAIN responseDoc

----------------------------------------------------------------------------
(* The coordinator: records, load by name, transport initialisation *)

\* C26: in every reachable state the current tag record, which is every
\* record a read or a load filled in, has a UID length of at most 10, for
\* any card and any dump file, a UID line of more than 10 bytes included
C26_UidLengthBounded ==
    current_tag.uid_length <= MIFARE_UID_MAX_SIZE

\* load() was just called with no protocol and a name of neither extension
UndetectableLoad ==
    /\ load_arg'.at = nops'
    /\ nops' = nops + 1
    /\ load_arg'.protocol = "PROTOCOL_UNKNOWN"
    /\ ~endsWith(load_arg'.filename, <<".", "s", "r", "i", "x">>)
    /\ ~endsWith(load_arg'.filename, <<".", "m", "f", "c">>)

\* C27: load with the protocol unspecified and a file name that ends in
\* neither .srix nor .mfc returns a failure, constructs no engine and leaves
\* the current tag record and the current protocol as they were
C27_UndetectableLoadChangesNothing ==
    [][UndetectableLoad =>
         /\ pc' = "idle"
         /\ ~result'.success
         /\ mifare_handler' = mifare_handler
         /\ srix_handler' = srix_handler
         /\ hw' = << >>
         /\ current_tag' = current_tag
         /\ current_protocol' = current_protocol]_vars

\* such a load was made while a dump was the current tag
C27_Witness ==
    /\ load_arg.at = nops
    /\ load_arg.at > 0
    /\ load_arg.protocol = "PROTOCOL_UNKNOWN"
    /\ load_arg.filename = NameBackup
    /\ initialized
    /\ current_tag.valid
    /\ ~result.success

\* C28: once the initialisation of the transport has failed for the Mifare
\* engine, no later operation attempts it again: the operation that follows
\* a failed begin issues no begin
C28_NoSecondInitialisation ==
    [][(\E i \in DOMAIN hw : hw[i] = Begin(FALSE))
         => (\A j \in DOMAIN hw' : hw'[j].c # "begin")]_vars

----------------------------------------------------------------------------
(* The key store *)

UpperHexDigits == {"0", "1", "2", "3", "4", "5", "6", "7", "8", "9",
                   "A", "B", "C", "D", "E", "F"}

\* every key held is 12 upper-case hexadecimal characters, none held twice
KeysWellFormed ==
    /\ \A i \in DOMAIN _keys :
         /\ Len(_keys[i]) = 12
         /\ \A j \in 1..12 : _keys[i][j] \in UpperHexDigits
    /\ \A i, j \in DOMAIN _keys : i # j => _keys[i] # _keys[j]

\* the string without its blanks and with its letters in upper case is
\* 12 upper-case hexadecimal characters
Normalises(key) ==
    LET text == SelectSeq(key, LAMBDA c : c # " ")
        raised == [i \in DOMAIN text |->
                     CASE text[i] = "a" -> "A" [] text[i] = "b" -> "B"
                       [] text[i] = "c" -> "C" [] text[i] = "d" -> "D"
                       [] text[i] = "e" -> "E" [] text[i] = "f" -> "F"
                       [] OTHER -> text[i]]
    IN /\ Len(raised) = 12
       /\ \A i \in 1..12 : raised[i] \in UpperHexDigits

\* this step is a call of the key store
KeyCall(name) ==
    /\ key_call'.n = key_call.n + 1
    /\ key_call'.op = name

\* C29: every key of the store is 12 upper-case hexadecimal characters and
\* no key is held twice, whatever begin, add, remove, clear and reload did;
\* add returns false and changes neither the store nor the file when its
\* input does not normalise to 12 hexadecimal characters, and returns false
\* and adds nothing when the normalised key is in the store
C29_KeysWellFormedAddRejects ==
    /\ []KeysWellFormed
    /\ [][KeyCall("addKey") =>
            /\ ~Normalises(key_call'.arg) =>
                 /\ ~key_call'.ret
                 /\ UNCHANGED <<_keys, _loaded, keys_file>>
            /\ (_loaded /\ find(_keys, replaceBlanks(toUpperCase(key_call'.arg)))) =>
                 /\ ~key_call'.ret
                 /\ UNCHANGED <<_keys, _loaded, keys_file>>
            /\ (~_loaded /\ ~key_call'.ret /\ Normalises(key_call'.arg)) =>
                 /\ find(_keys', replaceBlanks(toUpperCase(key_call'.arg)))
                 /\ \E fs \in BOOLEAN :
                      <<_keys', keys_file'>> =
                         <<ensureLoaded(KeyStore, fs).keys, ensureLoaded(KeyStore, fs).file>>
            /\ key_call'.ret =>
                 /\ Normalises(key_call'.arg)
                 /\ Len(_keys') = Len(ensureLoaded(KeyStore, TRUE).keys) + 1
                    \/ Len(_keys') = Len(ensureLoaded(KeyStore, FALSE).keys) + 1]_vars

\* add has just refused a key of the store given in lower case, in a store
\* loaded from a file that holds a custom key
C29_Witness ==
    /\ key_call.op = "addKey"
    /\ key_call.arg = Twice("f", "f")
    /\ ~key_call.ret
    /\ _loaded
    /\ find(_keys, KeyFF)
    /\ find(_keys, KeyCustom)
    /\ Len(_keys) >= 4

FiveDefaultKeys == {KeyFF, KeyMAD, KeyNDEF, KeyBlank, KeyAlt}

\* C30: the access that finds the store not loaded and no key file leaves
\* exactly the five default keys in the store, and ensureLoaded on a loaded
\* store changes nothing
C30_DefaultsOnFirstAccess ==
    /\ [][(/\ key_call'.n = key_call.n + 1
           /\ key_call'.op \in {"begin", "ensureLoaded", "hasKey"}
           /\ ~_loaded
           /\ _loaded'
           /\ ~keys_file.exists)
            => /\ {_keys'[i] : i \in DOMAIN _keys'} = FiveDefaultKeys
               /\ Len(_keys') = 5]_vars
    /\ [][(KeyCall("ensureLoaded") /\ _loaded)
            => UNCHANGED <<_keys, _loaded, keys_file>>]_vars

\* the first access after clear has just made the default store
C30_Witness ==
    /\ key_call.op = "ensureLoaded"
    /\ key_call.prev = "clear"
    /\ key_call.fresh
    /\ key_call.n >= 3
    /\ Len(_keys) = 5

\* the keys a reader of the file finds in it
KeysOfFile == loadLines(<< >>, keys_file.lines)

\* C31: on a store whose file system has refused nothing, once the store is
\* loaded and after every successful add and remove, the keys parsed from
\* the key file are the keys held in memory
C31_FileHoldsTheKeys ==
    (/\ key_call.working
     /\ _loaded
     /\ keys_file.exists) => KeysOfFile = _keys

\* C40: a call of hasKey or removeKey that follows an addKey which returned
\* true, with the string that addKey was given, returns true
C40_LookupFollowsAdd ==
    [][(/\ key_call.op = "addKey"
        /\ key_call.ret
        /\ key_call'.n = key_call.n + 1
        /\ key_call'.op \in {"hasKey", "removeKey"}
        /\ key_call'.arg = key_call.arg)
         => key_call'.ret]_vars

----------------------------------------------------------------------------
(* Block addressing *)

\* the sectors of a card type whose block range holds the block
SectorsHolding(type, b) ==
    {s \in 0 .. (getSectorCount(type) - 1) :
        /\ getFirstBlockOfSector(s) <= b
        /\ b < getFirstBlockOfSector(s) + getBlockCountInSector(s)}

\* C32: the sector computed for a block of a 1K or 4K card holds the block
\* between its first block and its first block plus its block count; the
\* count is 4 in sectors 0-31 and 16 in sectors 32-39; the block lies in the
\* range of that one sector of the card and of no other
C32_SectorHoldsBlock ==
    addr.done =>
        /\ addr.first_block <= addr.block
        /\ addr.block < addr.first_block + addr.block_count
        /\ addr.sector \in 0 .. 39
        /\ addr.block_count = (IF addr.sector <= 31 THEN 4 ELSE 16)
        /\ SectorsHolding(addr.type, addr.block) = {addr.sector}

\* the sector of block 200 of a 4K card was computed
C32_Witness ==
    /\ addr.done
    /\ addr.type = "CARD_MIFARE_4K"
    /\ addr.block = 200
    /\ addr.sector = 36
    /\ addr.first_block = 192

----------------------------------------------------------------------------
(* The coordinator: the record and the operations on it *)

\* C34: while a valid record of another protocol than SRIX is the current
\* tag, a step of writeSRIXBlocksSelective sends no block to the tag and
\* leaves its memory as it is, and the operation ends with a failure
C34_SelectiveWriteOfOwnProtocol ==
    [][(/\ op' = "write_srix_selective"
        /\ current_tag.valid
        /\ current_tag.protocol # "PROTOCOL_SRIX")
         => /\ \A i \in DOMAIN slog' : slog'[i].c # "write"
            /\ tag'.mem = tag.mem
            /\ (pc' = "idle" /\ pc # "idle") => ~result'.success]_vars

\* a read or load of the coordinator has just returned
ReadOrLoadReturned ==
    /\ pc' = "idle"
    /\ nops' = nops + 1 \/ pc # "idle"
    /\ op' \in {"read_srix", "load_srix", "load"}

C36_HeldEngineIsInitialised ==
    mifare_handler \in {"null", "ready"}

(* write_tag_headless *)

\* every block writeSector writes, in every sector of the card type of the
\* dump, was written to the card in this call
AllWritableWritten ==
    \A s \in 0 .. (getSectorCount(card_type) - 1) :
        \A i \in 1 .. Len(WritableBlocks(s)) :
            \E j \in 1 .. Len(wlog) :
                wlog[j].b = WritableBlocks(s)[i] /\ wlog[j].ok

\* C37: a full write that authenticated every sector and wrote every writable
\* block returns SUCCESS; a failure code means some writable block was not
\* written
C37_WrittenCardReportsSuccess ==
    (op = "write" /\ pc = "idle" /\ AllWritableWritten)
        => result.success /\ result.code = SUCCESS

(* The timeout of an SRIX read *)

\* C38: the retry loop that readSRIX(info, timeout_sec) starts is bounded by
\* timeout_sec * 1000 ms, the time the web handler waits less its margin
C38_LoopBoundedByTimeoutSec ==
    read_call.stage \in {"looping", "returned", "answered"}
        => /\ read_call.loop_timeout_ms = read_call.timeout_sec * 1000
           /\ read_call.max_wait = read_call.loop_timeout_ms + TIMEOUT_MARGIN_READ_MS

(* The Mifare engine's save_file_headless *)

\* a save has just written a dump under a name whose file existed
SavedOverExistingName ==
    /\ save_call'.n = save_call.n + 1
    /\ save_call'.ret # << >>
    /\ buildFilePath(save_call'.filename) \in DOMAIN mfc_folder

\* C39: a save under a file name whose file exists leaves that file as it
\* was and writes the dump to a new path, which it returns
C39_SaveKeepsExistingFile ==
    [][SavedOverExistingName
         => /\ \A q \in DOMAIN mfc_folder : mfc_folder'[q] = mfc_folder[q]
            /\ save_call'.ret \notin DOMAIN mfc_folder
            /\ save_call'.ret \in DOMAIN mfc_folder'
            /\ mfc_folder'[save_call'.ret] = save_call'.text]_vars

(* Full write and clone requests *)

\* C33: the handler of a full write or clone never reads the flags or the
\* result of the task data after the worker has freed it, and the task data
\* is never freed twice
C33_NoReadAfterWorkerFree ==
    write_req.hpc # "none" => write_req.stale = {} /\ write_req.frees <= 1

====
